---- MODULE Spec2Model ----
(***************************************************************************)
(* daopilot: a driver for the interactive DAOPHOT program (daophot.py) and *)
(* the PSF-building pipeline that uses it (psfpipe.py).                    *)
(*                                                                         *)
(* Python strings are modelled as sequences of one-character strings, so   *)
(* that os.path.basename, os.path.splitext, os.path.join and str.join are  *)
(* computed as Python computes them.                                       *)
(***************************************************************************)
EXTENDS Integers, Sequences, FiniteSets, TLC

VARIABLES
    pathCache,   \* Daophot._pathCache: category -> (name -> path)
    daophot,     \* Daophot._daophot: "spawned" (a pexpect process), "None", or "unbuilt"
    files,       \* the files that exist, as paths relative to the Python process
    va,          \* the VA option inside the daophot process: <<v>> once set, <<>> before
    named,       \* history: category -> (name -> path) of the _name_path calls made
    ret,         \* what the latest driver operation returned
    result,      \* make_psf's local `result`: index of the pattern expect() matched
    nOps,        \* the number of driver operations a caller has made on the session
    options,     \* make's arguments findHiddenStars and clean
    pc,          \* PSFFactory.make: the statement it is at
    maxVarPSF,   \* make's argument maxVarPSF
    varPSF,      \* make's local varPSF: <<k>>, or <<>> while unbound
    rangeI,      \* the next value of make's range(0, maxVarPSF + 1) iterator
    itVar,       \* _iteratePSF's parameter varPSF, as <<k>>
    itName,      \* _iteratePSF's parameter name
    mkNeiPath,   \* make's local neiPath (set once, by the initial fit)
    itNeiPath,   \* _iteratePSF's local neiPath
    fitText,     \* _iteratePSF's local fitText
    candidates,  \* StarPicker.candidates
    lstFile,     \* the star list persisted at StarPicker.outputPath, as <<list>>;
                 \* <<>> while outputPath is None and nothing is persisted
    log,         \* the driver operations make has issued, in order
    err,         \* the exception that ended make, "" when none
    apCatalog,   \* StarPicker.apCatalog: the identifiers that are its keys
    pickerCall,  \* the latest StarPicker operation: its name, the candidates it
                 \* started from, what it returned and the exception it raised
    parsing,     \* a diagnostic text and the badStars cullWithFitResults reads in it
    outputCall,  \* the arguments of the _make_output_path calls followed
    pickCatalog, \* a PickCatalog written to a file and the PickCatalog read back
    factory      \* the arguments of PSFFactory(workDir, apRadPath), the directories
                 \* and files around it, and what the constructor did

driverVars == <<pathCache, daophot, files, va, named, ret, result>>
sideVars == <<apCatalog, pickerCall, parsing, outputCall, pickCatalog, factory>>
callerVars == <<nOps, options, sideVars>>
makeVars == <<options, pc, maxVarPSF, varPSF, rangeI, itVar, itName, mkNeiPath, itNeiPath,
              fitText, candidates, lstFile, log, err>>
vars == <<pathCache, daophot, files, va, named, ret, result, nOps, options,
          pc, maxVarPSF, varPSF, rangeI, itVar, itName, mkNeiPath, itNeiPath,
          fitText, candidates, lstFile, log, err,
          apCatalog, pickerCall, parsing, outputCall, pickCatalog, factory>>

----------------------------------------------------------------------------
(* Python values *)

\* Python's None; no character string equals it (its one element is not a character)
None == <<"None">>

\* the reserved cache name 'last'
Last == <<"l", "a", "s", "t">>

\* the cache name 'input_image', abbreviated
InputImage == <<"i", "n", "p">>

\* the file categories of the path cache
Exts == {"fits", "coo", "lst", "ap", "psf", "nei"}

\* a category key as the text that is joined into a file name
ExtStr(ext) ==
    CASE ext = "fits" -> <<"f", "i", "t", "s">>
      [] ext = "coo" -> <<"c", "o", "o">>
      [] ext = "lst" -> <<"l", "s", "t">>
      [] ext = "ap" -> <<"a", "p">>
      [] ext = "psf" -> <<"p", "s", "f">>
      [] ext = "nei" -> <<"n", "e", "i">>

\* str.rfind(c) + 1: the 1-based index of the last c in s, 0 when there is none
RFind(s, c) ==
    LET I == {i \in 1..Len(s) : s[i] = c}
    IN IF I = {} THEN 0 ELSE CHOOSE i \in I : \A j \in I : j <= i

\* os.path.basename
basename(p) == SubSeq(p, RFind(p, "/") + 1, Len(p))

\* str.rstrip('/')
RECURSIVE RStripSlash(_)
RStripSlash(s) ==
    IF s # <<>> /\ s[Len(s)] = "/" THEN RStripSlash(SubSeq(s, 1, Len(s) - 1)) ELSE s

\* os.path.dirname
dirname(p) ==
    LET head == SubSeq(p, 1, RFind(p, "/"))
    IN IF head # <<>> /\ (\E i \in 1..Len(head) : head[i] # "/")
       THEN RStripSlash(head) ELSE head

\* os.path.splitext(p)[0]: the extension starts at the last dot of the last
\* component, unless only dots precede it there
splitextRoot(p) ==
    LET sep == RFind(p, "/")
        dot == RFind(p, ".")
    IN IF dot > sep /\ (\E i \in (sep + 1)..(dot - 1) : p[i] # ".")
       THEN SubSeq(p, 1, dot - 1) ELSE p

\* os.path.join(a, b)
join(a, b) ==
    IF b # <<>> /\ b[1] = "/" THEN b
    ELSE IF a = <<>> \/ a[Len(a)] = "/" THEN a \o b
    ELSE a \o <<"/">> \o b

\* dict[k] = v
Put(d, k, v) == [x \in (DOMAIN d) \cup {k} |-> IF x = k THEN v ELSE d[x]]

\* the empty dict
EmptyDict == [x \in {} |-> <<>>]

----------------------------------------------------------------------------
(* Inputs *)

\* Daophot.inputImagePath: an image in working directory 'w'
inputImagePath == <<"w", "/", "m", ".", "f">>

\* Daophot._workDir
workDir == dirname(inputImagePath)

\* names a caller passes to the driver: unset, empty, ordinary, the reserved one
NameArgs == {None, <<>>, <<"a">>, Last}

\* names a caller gives a producing operation for its output
OpNames == {None, <<"a">>}

\* explicit output paths a caller passes: unset, or a path with a directory
PathArgs == {None, <<"d", "/", "p">>}

\* arguments to be resolved as a name or a path
RefArgs == {Last, <<"a">>, <<"d", "/", "p">>, InputImage}

\* the number of driver operations one session is followed for
MaxOps == 2

----------------------------------------------------------------------------
(* Path Resolution Cache, daophot.py 315-369 *)

\* _resolve_path passing an uncached argument through whole
resolve_path_whole(cache, path, ext) ==
    IF path \in DOMAIN cache[ext] THEN cache[ext][path] ELSE path

\* _name_path filing the path's file name instead of the path
name_path_basename(cache, name, path, ext) ==
    IF name # None THEN [cache EXCEPT ![ext] = Put(@, name, basename(path))] ELSE cache

\* _name_path without its test for None
name_path_unguarded(cache, name, path, ext) == [cache EXCEPT ![ext] = Put(@, name, path)]

\* _set_last_path filing the path under its own text instead of 'last'
set_last_path_self(cache, path, ext) == [cache EXCEPT ![ext] = Put(@, path, path)]

\* _resolve_path: the cached path of a name, else the argument's basename
resolve_path(cache, path, ext) ==
    IF path \in DOMAIN cache[ext] THEN cache[ext][path] ELSE basename(path)

\* _name_path: file the path under the name, unless the name is None
name_path(cache, name, path, ext) ==
    IF name # None THEN [cache EXCEPT ![ext] = Put(@, name, path)] ELSE cache

\* _set_last_path: file the path under 'last'
set_last_path(cache, path, ext) == [cache EXCEPT ![ext] = Put(@, Last, path)]

\* _make_output_path returning an explicit path whole
make_output_path_whole(path, name, ext) ==
    IF path = None
    THEN LET fileRoot == splitextRoot(basename(inputImagePath))
             named_root == IF name # None THEN fileRoot \o <<"_">> \o name ELSE fileRoot
         IN named_root \o <<".">> \o ExtStr(ext)
    ELSE path

\* _make_output_path: the returned path
make_output_path(path, name, ext) ==
    IF path = None
    THEN LET fileRoot == splitextRoot(basename(inputImagePath))
             named_root == IF name # None THEN fileRoot \o <<"_">> \o name ELSE fileRoot
         IN named_root \o <<".">> \o ExtStr(ext)
    ELSE basename(path)

\* _make_output_path leaving an existing destination in place
removed_output_kept(fs, path, name, ext) == fs

\* _make_output_path: the files left after it removed an existing destination
removed_output(fs, path, name, ext) ==
    fs \ {join(workDir, make_output_path(path, name, ext))}

\* get_path
get_path(cache, name, ext) == join(workDir, resolve_path(cache, name, ext))

\* the cache after a producing operation has named and filed its output
produced(cache, name, path, ext) ==
    set_last_path(name_path(cache, name, path, ext), path, ext)

\* history of the _name_path calls: the path each name was last given to it with
note_name(h, name, path, ext) ==
    IF name = None THEN h ELSE [h EXCEPT ![ext] = Put(@, name, path)]

----------------------------------------------------------------------------
(* Values the driver returns *)

\* a fit's diagnostic text: None, or a text flagging the listed star identifiers
NoText == [isNone |-> TRUE, flags |-> <<>>]
Text(flags) == [isNone |-> FALSE, flags |-> flags]

\* a return value: the operation, its text (make_psf), up to two paths, the
\* exception raised instead of returning ("" when it returned), the name
\* of the file the operation had the process write, relative to the working
\* directory (None when it wrote none), and the output of the process the
\* operation has left unread (none unless make_psf says otherwise)
Ret(op, text, a, b, raised, out) ==
    [op |-> op, text |-> text, a |-> a, b |-> b, raised |-> raised, out |-> out,
     unread |-> <<>>]
Returned(op, a) == Ret(op, NoText, a, None, "", None)
Produced(op, a, out) == Ret(op, NoText, a, None, "", out)
Raised(op, exc) == Ret(op, NoText, None, None, exc, None)

\* the session's process is gone (shutdown sets _daophot to None): sendline
\* on it raises AttributeError
dead == daophot # "spawned"

----------------------------------------------------------------------------
(* Daophot.__init__ and _startup, daophot.py 28-64 *)

\* _pathCache as __init__ builds it and _startup's attach('input_image') leaves it
InitCache ==
    LET c0 == [e \in Exts |-> EmptyDict]
        c1 == [c0 EXCEPT !["fits"] = Put(Put(@, InputImage, basename(inputImagePath)),
                                         Last, basename(inputImagePath))]
    IN set_last_path(c1, resolve_path(c1, InputImage, "fits"), "fits")

\* the files of a run: the input image exists
InitFiles == {inputImagePath}

----------------------------------------------------------------------------
(* Driver operations, daophot.py 66-313.  Each constrains the driver's      *)
(* variables only; callers add what else changes.                          *)

\* set_option(name, value)
set_option(name, value) ==
    /\ ret' = IF dead THEN Raised("set_option", "AttributeError")
              ELSE Returned("set_option", None)
    /\ va' = IF ~dead /\ name = "VA" THEN <<value>> ELSE va
    /\ UNCHANGED <<pathCache, daophot, files, named, result>>

\* attach(image): resolves and files the image before anything is sent
attach(image) ==
    LET imagePath == resolve_path(pathCache, image, "fits")
    IN /\ pathCache' = set_last_path(pathCache, imagePath, "fits")
       /\ ret' = IF dead THEN Raised("attach", "AttributeError")
                 ELSE Returned("attach", None)
       /\ UNCHANGED <<daophot, files, va, named, result>>

\* find(cooName, cooPath): FIND writes the coordinate file in the working directory
find(cooName, cooPath) ==
    LET path == make_output_path(cooPath, cooName, "coo")
    IN /\ pathCache' = produced(pathCache, cooName, path, "coo")
       /\ named' = note_name(named, cooName, path, "coo")
       /\ files' = IF dead THEN removed_output(files, cooPath, cooName, "coo")
                   ELSE removed_output(files, cooPath, cooName, "coo")
                        \cup {join(workDir, path)}
       /\ ret' = IF dead THEN Raised("find", "AttributeError")
                 ELSE Produced("find", None, path)
       /\ UNCHANGED <<daophot, va, result>>

\* apphot(coordinates, photOutputPath, photOutputName): PHOTOMETRY is sent first
apphot(coordinates, photOutputPath, photOutputName) ==
    LET path == make_output_path(photOutputPath, photOutputName, "ap")
    IN IF dead
       THEN /\ ret' = Raised("apphot", "AttributeError")
            /\ UNCHANGED <<pathCache, daophot, files, va, named, result>>
       ELSE /\ pathCache' = produced(pathCache, photOutputName, path, "ap")
            /\ named' = note_name(named, photOutputName, path, "ap")
            /\ files' = removed_output(files, photOutputPath, photOutputName, "ap")
                        \cup {join(workDir, path)}
            /\ ret' = Produced("apphot", None, path)
            /\ UNCHANGED <<daophot, va, result>>

\* pick_psf_stars(apPhot, starListPath, starListName): the output prompt is
\* answered with an empty line, so PICK writes its default file, named after
\* the photometry file
pick_psf_stars(apPhot, starListPath, starListName) ==
    LET apPhotPath == resolve_path(pathCache, apPhot, "ap")
        path == make_output_path(starListPath, starListName, "lst")
        written == splitextRoot(apPhotPath) \o <<".">> \o ExtStr("lst")
    IN /\ pathCache' = produced(pathCache, starListName, path, "lst")
       /\ named' = note_name(named, starListName, path, "lst")
       /\ files' = IF dead THEN removed_output(files, starListPath, starListName, "lst")
                   ELSE removed_output(files, starListPath, starListName, "lst")
                        \cup {join(workDir, written)}
       /\ ret' = IF dead THEN Raised("pick_psf_stars", "AttributeError")
                 ELSE Produced("pick_psf_stars", None, written)
       /\ UNCHANGED <<daophot, va, result>>

\* expect([...]): the index of the pattern found first in the output, 0-based
expect(patterns, output) ==
    LET hits == {i \in 1..Len(output) : \E k \in 1..Len(patterns) : output[i] = patterns[k]}
        first == CHOOSE i \in hits : \A j \in hits : i <= j
    IN (CHOOSE k \in 1..Len(patterns) : output[first] = patterns[k]) - 1

\* what expect([...]) leaves in the session's buffer: the output after the
\* pattern found first
unread(patterns, output) ==
    LET hits == {i \in 1..Len(output) : \E k \in 1..Len(patterns) : output[i] = patterns[k]}
        first == CHOOSE i \in hits : \A j \in hits : i <= j
    IN SubSeq(output, first + 1, Len(output))

\* the patterns make_psf waits for, daophot.py 255
FitPatterns == <<"nei", "Failed to converge.", "Command:">>

\* what the PSF command can print after the file names are sent
FitOutputs ==
    { <<"nei", "Command:">>,
      <<"Failed to converge.", "Command:">>,
      <<"Command:">> }

\* make_psf taking only 'Failed to converge.' for a failure
make_psf_return_only1(res, flags, psfPath, neiPath) ==
    IF res = 1
    THEN Ret("make_psf", NoText, None, None, "", None)
    ELSE Ret("make_psf", Text(flags), join(workDir, psfPath), join(workDir, neiPath),
             "", psfPath)

\* make_psf's return value, daophot.py 258-272
make_psf_return(res, flags, psfPath, neiPath) ==
    IF res = 1 \/ res = 2
    THEN Ret("make_psf", NoText, None, None, "", None)
    ELSE Ret("make_psf", Text(flags), join(workDir, psfPath), join(workDir, neiPath),
             "", psfPath)

\* the neighbour file name make_psf forms from the model file name
nei_of(psfPath) == splitextRoot(psfPath) \o <<".">> \o ExtStr("nei")

\* make_psf(apPhot, starList, psfPath, psfName), the PSF command printing
\* `output` after a diagnostic text that flags `flags`
make_psf(apPhot, starList, psfPath, psfName, output, flags) ==
    LET path == make_output_path(psfPath, psfName, "psf")
        neiPath == nei_of(path)
        res == expect(FitPatterns, output)
        cleared == removed_output(files, psfPath, psfName, "psf") \ {neiPath}
        rest == unread(FitPatterns, output)
        left == IF res = 1 \/ res = 2 THEN rest ELSE unread(<<"Command:">>, rest)
    IN /\ pathCache' = set_last_path(produced(pathCache, psfName, path, "psf"),
                                     neiPath, "nei")
       /\ named' = note_name(named, psfName, path, "psf")
       /\ files' = IF ~dead /\ res = 0
                   THEN cleared \cup {join(workDir, path), join(workDir, neiPath)}
                   ELSE cleared
       /\ result' = IF dead THEN result ELSE res
       /\ ret' = IF dead THEN Raised("make_psf", "AttributeError")
                 ELSE [make_psf_return(res, flags, path, neiPath) EXCEPT !.unread = left]
       /\ UNCHANGED <<daophot, va>>

\* substar(substarList, psf, outputPath): a None substarList raises once
\* SUBSTAR and the model file have been sent
substar(substarList, psf, outputPath) ==
    LET cleared == files \ {outputPath}
    IN /\ files' = IF dead \/ substarList = None THEN cleared
                   ELSE cleared \cup {join(workDir, basename(outputPath))}
       /\ ret' = IF dead \/ substarList = None THEN Raised("substar", "AttributeError")
                 ELSE Produced("substar", outputPath, basename(outputPath))
       /\ UNCHANGED <<pathCache, daophot, va, named, result>>

\* shutdown()
shutdown ==
    /\ daophot' = IF dead THEN daophot ELSE "None"
    /\ ret' = IF dead THEN Raised("shutdown", "AttributeError")
              ELSE Returned("shutdown", None)
    /\ UNCHANGED <<pathCache, files, va, named, result>>

\* a direct call of _name_path(name, path, ext)
name_path_call(name, path, ext) ==
    /\ pathCache' = name_path(pathCache, name, path, ext)
    /\ named' = note_name(named, name, path, ext)
    /\ ret' = Returned("_name_path", None)
    /\ UNCHANGED <<daophot, files, va, result>>

----------------------------------------------------------------------------
(* Driver operations in which a prompt does not come: one of the           *)
(* operation's expect() calls raises pexpect's TIMEOUT, which no statement *)
(* of daophot.py catches.  What the operation did before that call stays.  *)

\* the operation op ends by raising TIMEOUT
timed_out(op) == ret' = Raised(op, "TIMEOUT")

\* set_option, lines 73-80: the option is set in the process once line 77
\* has been sent, so a timeout of lines 78 or 80 may find it set
set_option_timeout(name, value) ==
    /\ ~dead
    /\ va' \in {va} \cup (IF name = "VA" THEN {<<value>>} ELSE {})
    /\ timed_out("set_option")
    /\ UNCHANGED <<pathCache, daophot, files, named, result>>

\* attach, line 100: the image is already filed under 'last'
attach_timeout(image) ==
    /\ ~dead
    /\ pathCache' = set_last_path(pathCache, resolve_path(pathCache, image, "fits"), "fits")
    /\ timed_out("attach")
    /\ UNCHANGED <<daophot, files, va, named, result>>

\* find, lines 117-125: the output path is made and filed before FIND is
\* sent; the coordinate file is not complete
find_timeout(cooName, cooPath) ==
    /\ ~dead
    /\ pathCache' = produced(pathCache, cooName, make_output_path(cooPath, cooName, "coo"), "coo")
    /\ named' = note_name(named, cooName, make_output_path(cooPath, cooName, "coo"), "coo")
    /\ files' = removed_output(files, cooPath, cooName, "coo")
    /\ timed_out("find")
    /\ UNCHANGED <<daophot, va, result>>

\* apphot: a timeout of lines 146-166 comes before the output path is made,
\* a timeout of line 174 after it is made and filed
apphot_timeout(coordinates, photOutputPath, photOutputName) ==
    /\ ~dead
    /\ \/ UNCHANGED <<pathCache, named, files>>
       \/ /\ pathCache' = produced(pathCache, photOutputName,
                                   make_output_path(photOutputPath, photOutputName, "ap"), "ap")
          /\ named' = note_name(named, photOutputName,
                                make_output_path(photOutputPath, photOutputName, "ap"), "ap")
          /\ files' = removed_output(files, photOutputPath, photOutputName, "ap")
    /\ timed_out("apphot")
    /\ UNCHANGED <<daophot, va, result>>

\* pick_psf_stars, lines 202-211: the list's path is made and filed before
\* PICK is sent
pick_psf_stars_timeout(apPhot, starListPath, starListName) ==
    /\ ~dead
    /\ pathCache' = produced(pathCache, starListName,
                             make_output_path(starListPath, starListName, "lst"), "lst")
    /\ named' = note_name(named, starListName,
                          make_output_path(starListPath, starListName, "lst"), "lst")
    /\ files' = removed_output(files, starListPath, starListName, "lst")
    /\ timed_out("pick_psf_stars")
    /\ UNCHANGED <<daophot, va, result>>

\* make_psf: the paths are made and filed before PSF is sent.  A timeout of
\* lines 242-255 leaves `result` unassigned and no model; a timeout of line
\* 269 comes after the neighbour-file marker was seen and the model written.
make_psf_timeout(apPhot, starList, psfPath, psfName) ==
    LET path == make_output_path(psfPath, psfName, "psf")
        neiPath == nei_of(path)
        cleared == removed_output(files, psfPath, psfName, "psf") \ {neiPath}
    IN /\ ~dead
       /\ pathCache' = set_last_path(produced(pathCache, psfName, path, "psf"),
                                     neiPath, "nei")
       /\ named' = note_name(named, psfName, path, "psf")
       /\ \/ files' = cleared /\ result' = result
          \/ /\ files' = cleared \cup {join(workDir, path), join(workDir, neiPath)}
             /\ result' = 0
       /\ timed_out("make_psf")
       /\ UNCHANGED <<daophot, va>>

\* substar, lines 295-311: the old output is removed before SUBSTAR is sent
substar_timeout(substarList, psf, outputPath) ==
    /\ ~dead
    /\ files' = files \ {outputPath}
    /\ timed_out("substar")
    /\ UNCHANGED <<pathCache, daophot, va, named, result>>

----------------------------------------------------------------------------
(* A session used directly: any caller, any operation, any argument *)

\* make's defaults: findHiddenStars=False, clean=False (psfpipe.py 32)
NoOptions == [findHiddenStars |-> FALSE, clean |-> FALSE]

\* make is not running
NoMake ==
    /\ options = NoOptions
    /\ pc = "idle" /\ maxVarPSF = 0 /\ varPSF = <<>> /\ rangeI = 0 /\ itVar = <<>>
    /\ itName = None /\ mkNeiPath = None /\ itNeiPath = None
    /\ fitText = NoText /\ log = <<>> /\ err = ""

\* make is not running and no StarPicker exists
MakeIdle == NoMake /\ candidates = <<>> /\ lstFile = <<>>

\* no StarPicker is built, no text is being parsed, no output path is being
\* formed and no PickCatalog exists
NoPicker == [op |-> "", before |-> <<>>, returned |-> "None", raised |-> "",
             flags |-> [raised |-> "", badStars |-> <<>>]]
NoParsing == [stage |-> "idle"]
NoOutputCall == [calls |-> 0]
NoPickCatalog == [stage |-> "idle"]
NoFactory == [stage |-> "idle"]
SideIdle ==
    /\ apCatalog = {}
    /\ pickerCall = NoPicker
    /\ parsing = NoParsing
    /\ outputCall = NoOutputCall
    /\ pickCatalog = NoPickCatalog
    /\ factory = NoFactory

\* a session as Daophot(inputImagePath) returns it
SessionInit ==
    /\ pathCache = InitCache
    /\ daophot = "spawned"
    /\ files = InitFiles
    /\ va = <<>>
    /\ named = [e \in Exts |-> EmptyDict]
    /\ ret = Returned("__init__", None)
    /\ result = -1
    /\ nOps = 0

\* the state Daophot(inputImagePath) returns in
Init == SessionInit /\ MakeIdle /\ SideIdle

\* the values of the VA option: -1 (analytic) to 2, psfpipe.py 35-36
VAValues == {-1, 0, 1, 2}

\* star identifiers a diagnostic text can flag
MaxStars == 2
StarIds == 1..MaxStars

\* sequences of at most n elements of S
RECURSIVE SeqsUpTo(_, _)
SeqsUpTo(S, n) ==
    IF n = 0 THEN {<<>>}
    ELSE LET shorter == SeqsUpTo(S, n - 1)
         IN shorter \cup {Append(q, x) : q \in shorter, x \in S}

\* the flag lists of a diagnostic text
MaxFlags == 2
FlagLists == SeqsUpTo(StarIds, MaxFlags)

\* a caller's operation: one more of the MaxOps followed; make is not involved
CanCall == nOps < MaxOps
Called == nOps' = nOps + 1 /\ UNCHANGED <<makeVars, sideVars>>

CallSetOption == CanCall /\ \E v \in VAValues : set_option("VA", v) /\ Called

CallAttach == CanCall /\ \E image \in RefArgs : attach(image) /\ Called

CallFind == CanCall /\ \E cooName \in OpNames, cooPath \in PathArgs :
    find(cooName, cooPath) /\ Called

CallApphot == CanCall /\ \E photOutputName \in OpNames, photOutputPath \in PathArgs :
    apphot(Last, photOutputPath, photOutputName) /\ Called

CallPickPsfStars == CanCall /\ \E apPhot \in {Last, <<"d", "/", "p">>}, starListName \in OpNames, starListPath \in PathArgs :
    pick_psf_stars(apPhot, starListPath, starListName) /\ Called

CallMakePsf == CanCall /\ \E psfName \in OpNames, output \in FitOutputs, flags \in {<<>>, <<1>>} :
    make_psf(Last, Last, None, psfName, output, flags) /\ Called

CallSubstar == CanCall /\ \E substarList \in {None, <<"m", ".", "n", "e", "i">>}, outputPath \in PathArgs \ {None} :
    substar(substarList, Last, outputPath) /\ Called

CallShutdown == CanCall /\ shutdown /\ Called

CallNamePath == CanCall /\ \E name \in NameArgs, ext \in Exts :
    name_path_call(name, <<"d", "/", "p">>, ext) /\ Called

Next ==
    \/ CallSetOption
    \/ CallAttach
    \/ CallSubstar
    \/ CallFind
    \/ CallApphot
    \/ CallPickPsfStars
    \/ CallMakePsf
    \/ CallShutdown
    \/ CallNamePath

Spec == Init /\ [][Next]_vars

----------------------------------------------------------------------------
(* StarPicker, psfpipe.py 254-474 *)

\* list.remove(x) leaving the list as it is
RemoveFirst_none(list, x) == list

\* list.remove(x): the list without the first x
RemoveFirst(list, x) ==
    LET i == CHOOSE k \in 1..Len(list) : list[k] = x /\ \A j \in 1..(k - 1) : list[j] # x
    IN SubSeq(list, 1, i - 1) \o SubSeq(list, i + 1, Len(list))

\* x in list
In(list, x) == \E k \in 1..Len(list) : list[k] = x

\* psfpipe.py 467-468: remove each bad star in turn; list.remove raises
\* ValueError at the first one that is not in the list, keeping the removals made
RECURSIVE cull(_, _)
cull(cands, badStars) ==
    IF badStars = <<>> THEN [candidates |-> cands, raised |-> ""]
    ELSE IF ~In(cands, Head(badStars)) THEN [candidates |-> cands, raised |-> "ValueError"]
    ELSE cull(RemoveFirst(cands, Head(badStars)), Tail(badStars))

\* cullWithFitResults taking a None text for a text without flags
cullWithFitResults_skipNone(cands, text) ==
    IF text.isNone
    THEN [candidates |-> cands, raised |-> "", written |-> TRUE, culled |-> FALSE]
    ELSE LET c == cull(cands, text.flags)
         IN [candidates |-> c.candidates, raised |-> c.raised,
             written |-> c.raised = "", culled |-> Len(text.flags) > 0]

\* what cullWithFitResults does with a fit's text: fitText.split raises
\* AttributeError on None (psfpipe.py 440); otherwise the flagged stars are
\* removed and, unless that raised, the function returns whether any was flagged
cullWithFitResults(cands, text) ==
    IF text.isNone
    THEN [candidates |-> cands, raised |-> "AttributeError", written |-> FALSE, culled |-> FALSE]
    ELSE LET c == cull(cands, text.flags)
         IN [candidates |-> c.candidates, raised |-> c.raised,
             written |-> c.raised = "", culled |-> Len(text.flags) > 0]

\* the candidate lists a StarPicker can hold: lists of distinct identifiers
CandidateLists ==
    {q \in SeqsUpTo(StarIds, MaxStars) : \A i, j \in 1..Len(q) : i # j => q[i] # q[j]}

----------------------------------------------------------------------------
(* PSFFactory.make, psfpipe.py 31-122, with runAllstar, findHiddenStars   *)
(* and clean at their defaults (False)                                    *)

\* the largest maxVarPSF make documents, psfpipe.py 35-36
MaxVarPSF == 2

\* make's argument imageName
imageName == <<"m">>

\* psfpipe.py 83: the revised star list, in the factory's working directory
\* (here the image's directory)
pickPath == join(workDir, imageName \o <<"r", "e", "v", ".", "l", "s", "t">>)

\* "%i" % n for the levels the loop can reach
IntStr(n) == <<CASE n = 0 -> "0" [] n = 1 -> "1" [] n = 2 -> "2" [] n = 3 -> "3"
                 [] OTHER -> "9">>

\* psfpipe.py 101: "var%i" % varPSF
itername(n) == <<"v", "a", "r">> \o IntStr(n)

\* the output names of make's fits
Init_ == <<"i", "n", "i", "t">>
Fin == <<"f", "i", "n">>
Bail == <<"b", "a", "i", "l">>

\* _makeAllstarPaths(itername)[2]: "_".join((imageRoot, itername, "subnei.fits"))
neiSubPathOf(name) ==
    splitextRoot(inputImagePath) \o <<"_">> \o name \o <<"_">>
        \o <<"s", "u", "b", "n", "e", "i", ".", "f", "i", "t", "s">>

\* an entry of the log: the operation, the option set (set_option), the
\* output name (make_psf, _iteratePSF), the VA value in force or set, the
\* index of the pattern the fit's output matched (-1 for the other
\* operations), and whether the fit's text flags a star.  The entry of a call
\* of _iteratePSF also holds the number of candidates the call starts with.
Entry(op, opt, name, v, res, flagged) ==
    [op |-> op, opt |-> opt, name |-> name, va |-> v, res |-> res, flagged |-> flagged]
Op(op) == Entry(op, "", None, <<>>, -1, FALSE)
SetEntry(opt, v) == Entry("set_option", opt, None, <<v>>, -1, FALSE)
IterEntry(name, v) ==
    [op |-> "_iteratePSF", opt |-> "", name |-> name, va |-> v, res |-> -1,
     flagged |-> FALSE, stars |-> Len(candidates)]

\* the entry of the make_psf call just made
FitEntry(name) == Entry("make_psf", "", name, va, result', ret'.text.flags # <<>>)

\* make ends by raising exc
Raise(exc) == pc' = "raised" /\ err' = exc

\* the state before make is called: the factory is built, no driver exists
InitMake ==
    /\ pathCache = [e \in Exts |-> EmptyDict]
    /\ daophot = "unbuilt"
    /\ files = InitFiles
    /\ va = <<>>
    /\ named = [e \in Exts |-> EmptyDict]
    /\ ret = Returned("", None)
    /\ result = -1
    /\ nOps = 0
    /\ options = NoOptions
    /\ pc = "daophot"
    /\ maxVarPSF \in -1..MaxVarPSF
    /\ varPSF = <<>> /\ rangeI = 0 /\ itVar = <<>>
    /\ itName = None /\ mkNeiPath = None /\ itNeiPath = None
    /\ fitText = NoText /\ candidates = <<>> /\ lstFile = <<>>
    /\ log = <<>> /\ err = ""
    /\ SideIdle

\* line 47: Daophot(imagePath), whose _startup sets WA and attaches the image
MkDaophot ==
    /\ pc = "daophot"
    /\ pathCache' = InitCache
    /\ daophot' = "spawned"
    /\ ret' = Returned("__init__", None)
    /\ log' = log \o <<SetEntry("WA", -2), Op("attach")>>
    /\ pc' = "analytic"
    /\ UNCHANGED <<files, va, named, result, callerVars, maxVarPSF, varPSF, rangeI, itVar,
                   itName, mkNeiPath, itNeiPath, fitText, candidates, lstFile, err>>

\* line 51: set_option('VA', '-1')
MkAnalytic ==
    /\ pc = "analytic"
    /\ set_option("VA", -1)
    /\ log' = Append(log, SetEntry("VA", -1))
    /\ pc' = "find"
    /\ UNCHANGED <<callerVars, maxVarPSF, varPSF, rangeI, itVar, itName, mkNeiPath,
                   itNeiPath, fitText, candidates, lstFile, err>>

\* lines 52-60: find, then the coordinate file is read and drawn
MkFind ==
    /\ pc = "find"
    /\ find(None, None)
    /\ log' = Append(log, Op("find"))
    /\ pc' = "apphot"
    /\ UNCHANGED <<callerVars, maxVarPSF, varPSF, rangeI, itVar, itName, mkNeiPath,
                   itNeiPath, fitText, candidates, lstFile, err>>

\* lines 63-65: apphot(coordinates='last')
MkApphot ==
    /\ pc = "apphot"
    /\ apphot(Last, None, None)
    /\ log' = Append(log, Op("apphot"))
    /\ pc' = "pick"
    /\ UNCHANGED <<callerVars, maxVarPSF, varPSF, rangeI, itVar, itName, mkNeiPath,
                   itNeiPath, fitText, candidates, lstFile, err>>

\* line 66: self.daophot.pickPSFStars(100, apPhot='last').  daophot.py
\* defines no pickPSFStars (its PICK operation is pick_psf_stars, line 176),
\* so on this driver the call raises AttributeError and make ends here.
MkPickRaises ==
    /\ pc = "pick"
    /\ Raise("AttributeError")
    /\ UNCHANGED <<driverVars, callerVars, maxVarPSF, varPSF, rangeI, itVar, itName,
                   mkNeiPath, itNeiPath, fitText, candidates, lstFile, log>>

\* line 66 on a driver that answers pickPSFStars with its PICK operation:
\* the only way the statements after line 66 run
MkPick ==
    /\ pc = "pick"
    /\ pick_psf_stars(Last, None, None)
    /\ log' = Append(log, Op("pick_psf_stars"))
    /\ pc' = "picker"
    /\ UNCHANGED <<callerVars, maxVarPSF, varPSF, rangeI, itVar, itName, mkNeiPath,
                   itNeiPath, fitText, candidates, lstFile, err>>

\* lines 78-86: the StarPicker takes DAOPHOT's picks, filters them and
\* writes the list that is left to pickPath
MkPicker ==
    /\ pc = "picker"
    /\ \E picks \in CandidateLists :
        /\ candidates' = picks
        /\ lstFile' = <<picks>>
    /\ files' = files \cup {pickPath}
    /\ pc' = "initfit"
    /\ UNCHANGED <<pathCache, daophot, va, named, ret, result, callerVars, maxVarPSF,
                   varPSF, rangeI, itVar, itName, mkNeiPath, itNeiPath, fitText,
                   log, err>>

\* lines 89-91: the initial fit; its neiPath is the one make keeps
MkInitFit ==
    /\ pc = "initfit"
    /\ \E output \in FitOutputs, flags \in FlagLists :
        make_psf(Last, pickPath, None, Init_, output, flags)
    /\ mkNeiPath' = ret'.b
    /\ log' = Append(log, FitEntry(Init_))
    /\ pc' = "for"
    /\ UNCHANGED <<callerVars, maxVarPSF, varPSF, rangeI, itVar, itName, itNeiPath,
                   fitText, candidates, lstFile, err>>

\* the loop of line 100 taking the levels from maxVarPSF down
MkFor_descending ==
    /\ pc = "for"
    /\ rangeI <= maxVarPSF
    /\ varPSF' = <<maxVarPSF - rangeI>>
    /\ rangeI' = rangeI + 1
    /\ itVar' = <<maxVarPSF - rangeI>>
    /\ itName' = itername(maxVarPSF - rangeI)
    /\ itNeiPath' = mkNeiPath
    /\ log' = Append(log, IterEntry(itername(maxVarPSF - rangeI), <<maxVarPSF - rangeI>>))
    /\ pc' = "substar"
    /\ UNCHANGED <<driverVars, callerVars, maxVarPSF, mkNeiPath, fitText, candidates,
                   lstFile, err>>

\* lines 100-104: the next level of the loop calls _iteratePSF.  Nothing
\* raises PSFNotConverged (daophot.py 262 is a comment), so the handler of
\* lines 105-107 never runs and any other exception leaves make.
MkFor ==
    /\ pc = "for"
    /\ rangeI <= maxVarPSF
    /\ varPSF' = <<rangeI>>
    /\ rangeI' = rangeI + 1
    /\ itVar' = <<rangeI>>
    /\ itName' = itername(rangeI)
    /\ itNeiPath' = mkNeiPath
    /\ log' = Append(log, IterEntry(itername(rangeI), <<rangeI>>))
    /\ pc' = "substar"
    /\ UNCHANGED <<driverVars, callerVars, maxVarPSF, mkNeiPath, fitText, candidates,
                   lstFile, err>>

\* lines 109-111: the final call of _iteratePSF; varPSF is unbound when the
\* loop ran no level
MkFinal ==
    /\ pc = "for"
    /\ rangeI > maxVarPSF
    /\ IF varPSF = <<>>
       THEN /\ Raise("UnboundLocalError")
            /\ UNCHANGED <<itVar, itName, itNeiPath, log>>
       ELSE /\ itVar' = varPSF
            /\ itName' = Fin
            /\ itNeiPath' = mkNeiPath
            /\ log' = Append(log, IterEntry(Fin, varPSF))
            /\ pc' = "substar"
            /\ err' = err
    /\ UNCHANGED <<driverVars, callerVars, maxVarPSF, varPSF, rangeI, mkNeiPath, fitText,
                   candidates, lstFile>>

\* _iteratePSF going on to line 161 without the substar of lines 159-160
ItSubstar_notIssued ==
    /\ pc = "substar"
    /\ pc' = "setva"
    /\ UNCHANGED <<driverVars, callerVars, maxVarPSF, varPSF, rangeI, itVar, itName,
                   mkNeiPath, itNeiPath, fitText, candidates, lstFile, log, err>>

\* lines 159-160: substar(neiPath, 'last', neiSubPath, keepers=pickPath)
ItSubstar ==
    /\ pc = "substar"
    /\ substar(itNeiPath, Last, neiSubPathOf(itName))
    /\ log' = Append(log, Op("substar"))
    /\ IF ret'.raised # "" THEN Raise(ret'.raised) ELSE pc' = "setva" /\ err' = err
    /\ UNCHANGED <<callerVars, maxVarPSF, varPSF, rangeI, itVar, itName, mkNeiPath,
                   itNeiPath, fitText, candidates, lstFile>>

\* line 161: set_option('VA', int(varPSF))
ItSetVA ==
    /\ pc = "setva"
    /\ set_option("VA", itVar[1])
    /\ log' = Append(log, SetEntry("VA", itVar[1]))
    /\ pc' = "attach"
    /\ UNCHANGED <<callerVars, maxVarPSF, varPSF, rangeI, itVar, itName, mkNeiPath,
                   itNeiPath, fitText, candidates, lstFile, err>>

\* line 162: attach(neiSubPath), the path substar returned
ItAttach ==
    /\ pc = "attach"
    /\ attach(neiSubPathOf(itName))
    /\ log' = Append(log, Op("attach"))
    /\ pc' = "fit"
    /\ UNCHANGED <<callerVars, maxVarPSF, varPSF, rangeI, itVar, itName, mkNeiPath,
                   itNeiPath, fitText, candidates, lstFile, err>>

\* lines 163-164: fitText, psfPath, neiPath = make_psf(...)
ItFit ==
    /\ pc = "fit"
    /\ \E output \in FitOutputs, flags \in FlagLists :
        make_psf(Last, pickPath, None, itName, output, flags)
    /\ fitText' = ret'.text
    /\ itNeiPath' = ret'.b
    /\ log' = Append(log, FitEntry(itName))
    /\ pc' = "cull"
    /\ UNCHANGED <<callerVars, maxVarPSF, varPSF, rangeI, itVar, itName, mkNeiPath,
                   candidates, lstFile, err>>

\* the cull of lines 165-169 without the write of line 469
ItCull_unwritten ==
    LET c == cullWithFitResults(candidates, fitText)
        back == c.raised = "" /\ ~c.culled /\ ~options.findHiddenStars
    IN /\ pc = "cull"
       /\ candidates' = c.candidates
       /\ lstFile' = lstFile
       /\ IF c.raised # "" THEN Raise(c.raised)
          ELSE /\ pc' = IF c.culled THEN "substar"
                        ELSE IF options.findHiddenStars THEN "hidden"
                        ELSE IF itName = Fin THEN "finish" ELSE "for"
               /\ err' = err
       /\ itVar' = IF back THEN <<>> ELSE itVar
       /\ itName' = IF back THEN None ELSE itName
       /\ itNeiPath' = IF back THEN None ELSE itNeiPath
       /\ fitText' = IF back THEN NoText ELSE fitText
       /\ UNCHANGED <<driverVars, callerVars, maxVarPSF, varPSF, rangeI, mkNeiPath, log>>

\* lines 165-169 and the return: cull with the fit's text; repeat the fit
\* when stars were culled, else go on to the hidden-star pass when it is
\* asked for (line 178), else return to make, which ends _iteratePSF's locals
ItCull ==
    LET c == cullWithFitResults(candidates, fitText)
        back == c.raised = "" /\ ~c.culled /\ ~options.findHiddenStars
    IN /\ pc = "cull"
       /\ candidates' = c.candidates
       /\ lstFile' = IF c.written THEN <<c.candidates>> ELSE lstFile
       /\ IF c.raised # "" THEN Raise(c.raised)
          ELSE /\ pc' = IF c.culled THEN "substar"
                        ELSE IF options.findHiddenStars THEN "hidden"
                        ELSE IF itName = Fin THEN "finish" ELSE "for"
               /\ err' = err
       /\ itVar' = IF back THEN <<>> ELSE itVar
       /\ itName' = IF back THEN None ELSE itName
       /\ itNeiPath' = IF back THEN None ELSE itNeiPath
       /\ fitText' = IF back THEN NoText ELSE fitText
       /\ UNCHANGED <<driverVars, callerVars, maxVarPSF, varPSF, rangeI, mkNeiPath, log>>

\* lines 112-122: the final model's path is looked up and the session shut
\* down; make then returns, after _clean when clean is set
MkFinish ==
    /\ pc = "finish"
    /\ shutdown
    /\ log' = Append(log, Op("shutdown"))
    /\ pc' = IF options.clean THEN "clean" ELSE "done"
    /\ UNCHANGED <<callerVars, maxVarPSF, varPSF, rangeI, itVar, itName, mkNeiPath,
                   itNeiPath, fitText, candidates, lstFile, err>>

\* lines 114 and 122: the model path make returns, looked up under the name
\* 'fin' whatever fits were made
psfPathReturned == get_path(pathCache, Fin, "psf")

\* make swallowing the TIMEOUT and trying the statement again
after_timeout_retry == pc' = pc /\ err' = err

\* what make does with a TIMEOUT a driver operation raises: nothing catches
\* it (the only handler, lines 105-107, is for PSFNotConverged), so it
\* leaves make
after_timeout == Raise("TIMEOUT")

\* the driver operation make is at raises TIMEOUT.  During line 47 the
\* Daophot being built is lost with the exception.
MkTimeout ==
    /\ \/ /\ pc = "daophot"
          /\ timed_out("__init__")
          /\ UNCHANGED <<pathCache, daophot, files, va, named, result>>
          /\ log' = Append(log, Op("__init__"))
       \/ /\ pc = "analytic"
          /\ set_option_timeout("VA", -1)
          /\ log' = Append(log, SetEntry("VA", -1))
       \/ /\ pc = "find"
          /\ find_timeout(None, None)
          /\ log' = Append(log, Op("find"))
       \/ /\ pc = "apphot"
          /\ apphot_timeout(Last, None, None)
          /\ log' = Append(log, Op("apphot"))
       \/ /\ pc = "pick"
          /\ pick_psf_stars_timeout(Last, None, None)
          /\ log' = Append(log, Op("pick_psf_stars"))
       \/ /\ pc = "initfit"
          /\ make_psf_timeout(Last, pickPath, None, Init_)
          /\ log' = Append(log, Entry("make_psf", "", Init_, va, -1, FALSE))
       \/ /\ pc = "substar"
          /\ substar_timeout(itNeiPath, Last, neiSubPathOf(itName))
          /\ log' = Append(log, Op("substar"))
       \/ /\ pc = "setva"
          /\ set_option_timeout("VA", itVar[1])
          /\ log' = Append(log, SetEntry("VA", itVar[1]))
       \/ /\ pc = "attach"
          /\ attach_timeout(neiSubPathOf(itName))
          /\ log' = Append(log, Op("attach"))
       \/ /\ pc = "fit"
          /\ make_psf_timeout(Last, pickPath, None, itName)
          /\ log' = Append(log, Entry("make_psf", "", itName, va, -1, FALSE))
    /\ after_timeout
    /\ UNCHANGED <<callerVars, maxVarPSF, varPSF, rangeI, itVar, itName, mkNeiPath,
                   itNeiPath, fitText, candidates, lstFile>>

NextMake ==
    \/ MkDaophot
    \/ MkAnalytic
    \/ MkFind
    \/ MkApphot
    \/ MkPickRaises
    \/ MkPick
    \/ MkPicker
    \/ MkInitFit
    \/ MkFor
    \/ MkFinal
    \/ ItSubstar
    \/ ItSetVA
    \/ ItAttach
    \/ ItFit
    \/ ItCull
    \/ MkFinish
    \/ MkTimeout

SpecMake == InitMake /\ [][NextMake]_vars

----------------------------------------------------------------------------
(* PSFFactory.make with findHiddenStars or clean set, psfpipe.py 178-248 *)

\* make's argument flagPath: the flag image, next to the input image
flagPath == splitextRoot(inputImagePath) \o <<"_", "f", "l", "a", "g", ".", "f", "i", "t", "s">>

\* _makeAllstarPaths(itername)[0] and [1], lines 139-140
alsPathOf(name) == splitextRoot(inputImagePath) \o <<".">> \o name \o <<".", "a", "l", "s">>
alsStarSubPathOf(name) == splitextRoot(inputImagePath) \o <<"_">> \o name \o <<"_", "a", "l", "s", ".", "f", "i", "t", "s">>

\* the files a completed detectHiddenStars leaves, lines 187-209: allstar's
\* photometry and star-subtracted image, the coordinates and photometry of
\* the session run on that image, and the region file
hiddenStarFiles(name) ==
    LET imageRoot == splitextRoot(alsStarSubPathOf(name))
    IN {alsPathOf(name), alsStarSubPathOf(name),
        imageRoot \o <<".">> \o ExtStr("coo"), imageRoot \o <<".">> \o ExtStr("ap"),
        imageRoot \o <<"_", "h", "i", "d", "d", "e", "n", ".", "r", "e", "g">>}

\* lines 178-181: detectHiddenStars.  Allstar.run (allstar.py 45-80) waits
\* for allstar's prompts with expect(), which raises TIMEOUT when one does
\* not come; neither detectHiddenStars nor _iteratePSF nor make catches it.
ItDetectHiddenStars ==
    /\ pc = "hidden"
    /\ \/ /\ files' = files \cup hiddenStarFiles(itName)
          /\ pc' = IF itName = Fin THEN "finish" ELSE "for"
          /\ err' = err
          /\ itVar' = <<>> /\ itName' = None /\ itNeiPath' = None /\ fitText' = NoText
       \/ /\ files' = files
          /\ Raise("TIMEOUT")
          /\ UNCHANGED <<itVar, itName, itNeiPath, fitText>>
    /\ UNCHANGED <<pathCache, daophot, va, named, ret, result, callerVars, maxVarPSF,
                   varPSF, rangeI, mkNeiPath, candidates, lstFile, log>>

\* glob.glob(prefix + "*" + suffix): the files whose path starts with the
\* prefix and ends with the suffix, with no '/' in between
glob(fs, prefix, suffix) ==
    {p \in fs :
        /\ Len(p) >= Len(prefix) + Len(suffix)
        /\ SubSeq(p, 1, Len(prefix)) = prefix
        /\ SubSeq(p, Len(p) - Len(suffix) + 1, Len(p)) = suffix
        /\ \A i \in (Len(prefix) + 1)..(Len(p) - Len(suffix)) : p[i] # "/"}

\* _clean, lines 213-248: the files left, and the exception of line 248 when
\* <imageRoot>.lst is not there to remove
clean(fs, imagePath, flag) ==
    LET imageRoot == splitextRoot(imagePath)
        swept == (glob(fs, imageRoot, <<".", "f", "i", "t", "s">>) \ {imagePath, flag})
                 \cup glob(fs, imageRoot \o <<"_", "v", "a", "r", "0">>, <<>>)
                 \cup glob(fs, imageRoot \o <<"_", "v", "a", "r", "1">>, <<>>)
                 \cup glob(fs, imageRoot \o <<"_", "v", "a", "r", "2">>, <<>>)
                 \cup glob(fs, imageRoot, <<".">> \o ExtStr("nei"))
                 \cup glob(fs, imageRoot \o <<"_">> \o Init_, <<>>)
                 \cup glob(fs, imageRoot, <<".", "a", "l", "s">>)
                 \cup glob(fs, imageRoot \o <<"_", "f", "i", "n", "_", "a", "l", "s", ".">>, <<>>)
                 \cup glob(fs, imageRoot, <<".", "r", "e", "g">>)
        left == fs \ swept
        lst == imageRoot \o <<".">> \o ExtStr("lst")
    IN [files |-> left \ {lst}, raised |-> IF lst \in left THEN "" ELSE "OSError"]

\* lines 119-122: _clean, then make returns
MkClean ==
    LET c == clean(files, inputImagePath, flagPath)
    IN /\ pc = "clean"
       /\ files' = c.files
       /\ IF c.raised # "" THEN Raise(c.raised) ELSE pc' = "done" /\ err' = err
       /\ UNCHANGED <<pathCache, daophot, va, named, ret, result, callerVars, maxVarPSF,
                      varPSF, rangeI, itVar, itName, mkNeiPath, itNeiPath, fitText,
                      candidates, lstFile, log>>

\* the largest maxVarPSF make is followed with when an option is set: make
\* takes any integer, and documents 2 as the maximum
MaxLevel == MaxVarPSF + 1

\* the state before make is called with findHiddenStars or clean set
InitMakeOptions ==
    /\ pathCache = [e \in Exts |-> EmptyDict]
    /\ daophot = "unbuilt"
    /\ files = InitFiles \cup {flagPath}
    /\ va = <<>>
    /\ named = [e \in Exts |-> EmptyDict]
    /\ ret = Returned("", None)
    /\ result = -1
    /\ nOps = 0
    /\ options \in [findHiddenStars : BOOLEAN, clean : BOOLEAN] \ {NoOptions}
    /\ pc = "daophot"
    /\ maxVarPSF \in 0..MaxLevel
    /\ varPSF = <<>> /\ rangeI = 0 /\ itVar = <<>>
    /\ itName = None /\ mkNeiPath = None /\ itNeiPath = None
    /\ fitText = NoText /\ candidates = <<>> /\ lstFile = <<>>
    /\ log = <<>> /\ err = ""
    /\ SideIdle

NextMakeOptions ==
    \/ NextMake
    \/ ItDetectHiddenStars
    \/ MkClean

SpecMakeOptions == InitMakeOptions /\ [][NextMakeOptions]_vars

----------------------------------------------------------------------------
(* Claims about PSFFactory.make, under SpecMake *)

\* make has ended, by returning or by raising
MakeEnded == pc \in {"done", "raised"}

\* the log's entry i is a fit whose report was non-convergence: make_psf saw
\* 'Failed to converge.' (or only 'Command:') and returned None for all three
FitFailedAt(i) == log[i].op = "make_psf" /\ log[i].res \in {1, 2}

\* the log's entry i is a fit of the escalation loop that daophot ended with
\* 'Failed to converge.'
LevelNotConvergedAt(i) ==
    /\ log[i].op = "make_psf" /\ log[i].res = 1
    /\ \E k \in 0..MaxVarPSF : log[i].name = itername(k)

\* the log's entry j sets the model-complexity option or fits
IsLevelOp(j) ==
    \/ log[j].op = "make_psf"
    \/ log[j].op = "set_option" /\ log[j].opt = "VA"

\* the log before the final call of _iteratePSF (all of it when there is none)
BeforeFinal ==
    LET I == {i \in 1..Len(log) : log[i].op = "_iteratePSF" /\ log[i].name = Fin}
    IN IF I = {} THEN log ELSE SubSeq(log, 1, (CHOOSE i \in I : \A j \in I : i <= j) - 1)

IsFit(e) == e.op = "make_psf"
IsSetVA(e) == e.op = "set_option" /\ e.opt = "VA"
IsFinFit(e) == e.op = "make_psf" /\ e.name = Fin

\* the VA values of the entries of a log, in order
RECURSIVE Levels(_)
Levels(entries) ==
    IF entries = <<>> THEN <<>> ELSE <<Head(entries).va[1]>> \o Levels(Tail(entries))

\* every fit so far matched the neighbour-file marker and flagged no star
\* (so the Picker's cull never removed one)
AllFitsCleanSoFar ==
    \A i \in 1..Len(log) : log[i].op = "make_psf" => log[i].res = 0 /\ ~log[i].flagged

\* C1: if a fit of the escalation loop reports non-convergence, make performs
\* a Fallback fit (output name 'bail', VA = -1) after it and runs to
\* completion instead of ending with an error.
C1_FallbackThenCompletion ==
    \A i \in 1..Len(log) :
        (LevelNotConvergedAt(i) /\ MakeEnded) =>
            /\ pc = "done"
            /\ \E j \in (i + 1)..Len(log) :
                log[j].op = "make_psf" /\ log[j].name = Bail /\ log[j].va = <<-1>>

\* C2: once a fit has reported non-convergence at level k, make issues no fit
\* and sets no model-complexity option at a level greater than k.
C2_NoEscalationAfterNonConvergence ==
    \A i \in 1..Len(log) : \A j \in (i + 1)..Len(log) :
        (FitFailedAt(i) /\ IsLevelOp(j)) => ~(log[j].va[1] > log[i].va[1])

\* C2's case: with maxVarPSF = 2 the fit at level 1 did not converge, and make
\* has ended
C2_Witness ==
    /\ MakeEnded /\ maxVarPSF = 2
    /\ \E i \in 1..Len(log) : LevelNotConvergedAt(i) /\ log[i].va = <<1>>

\* C3: with maxVarPSF = 2 and no star ever culled, make issues exactly three
\* fits before the final fit, at complexity 0, 1, 2, and the VA values it
\* sends before the final fit are 0, 1, 2 in this order.
C3_ThreeFitsBeforeFinal ==
    (MakeEnded /\ maxVarPSF = 2 /\ AllFitsCleanSoFar) =>
        /\ Levels(SelectSeq(BeforeFinal, IsFit)) = <<0, 1, 2>>
        /\ Levels(SelectSeq(BeforeFinal, IsSetVA)) = <<0, 1, 2>>

\* C5: the final fit is attempted exactly once: when make returns, exactly
\* one make_psf call with output name 'fin' has been issued.
C5_FinalFitOnce ==
    pc = "done" => Len(SelectSeq(log, IsFinFit)) = 1

\* the entry that opens the call of _iteratePSF the log's entry j belongs to
IterOf(j) ==
    LET I == {i \in 1..(j - 1) : log[i].op = "_iteratePSF"}
    IN CHOOSE i \in I : \A k \in I : k <= i

\* the log's entry j is a fit issued by _iteratePSF
IsLoopFitAt(j) == log[j].op = "make_psf" /\ log[j].name # Init_

\* C30: within each iteration of the fitting loop at level k the driver
\* operations are issued in exactly this order: substar (keeping the
\* current candidates), set_option VA = k, attach, make_psf (against the
\* current candidate list); no fit of the loop is issued without the three
\* steps before it, and the list persisted for substar and for the fit is
\* the current candidate list.
C30_IterationOrder ==
    /\ \A j \in 1..Len(log) :
        IsLoopFitAt(j) =>
            /\ j > 4
            /\ log[j - 3] = Op("substar")
            /\ log[j - 2] = SetEntry("VA", log[IterOf(j)].va[1])
            /\ log[j - 1] = Op("attach")
            /\ log[j].name = log[IterOf(j)].name
            /\ log[j].va = log[IterOf(j)].va
    /\ \A j \in 1..(Len(log) - 1) :
        /\ log[j] = Op("substar") => IsSetVA(log[j + 1])
        /\ (IsSetVA(log[j]) /\ j > 3) => log[j + 1] = Op("attach")
        /\ (log[j] = Op("attach") /\ j > 2) => IsLoopFitAt(j + 1)
    /\ pc \in {"substar", "setva", "attach", "fit"} => lstFile = <<candidates>>

\* C30's case: at level 1 a fit flagged a star, the star was culled, and the
\* iteration was repeated up to its fit
C30_Witness ==
    \E i, j \in 1..Len(log) :
        /\ i < j
        /\ IsLoopFitAt(i) /\ log[i].name = itername(1) /\ log[i].flagged
        /\ IsLoopFitAt(j) /\ log[j].name = itername(1)
        /\ log[j - 3] = Op("substar")

\* the neighbour list the most recent fit produced, as make_psf returned it
LatestNei == join(workDir, pathCache["nei"][Last])

\* a substar is issued in this step
SubstarIssued == log' = Append(log, Op("substar"))

\* C27: every substar make issues uses the neighbour list produced by the
\* most recent successful fit, also on the first iteration of each level and
\* of the final fit.
C27_SubstarUsesLatestNei ==
    [][(SubstarIssued /\ result = 0) => itNeiPath = LatestNei]_vars

\* the cull of this step removes the last candidates
CulledToEmpty == pc = "cull" /\ candidates # <<>> /\ candidates' = <<>>

\* C22: if culling leaves the candidate set empty, make raises instead of
\* going on to a substar and a fit with the empty candidate list.
C22_EmptyCandidatesRaise ==
    [][CulledToEmpty => pc' = "raised" /\ err' # ""]_vars

\* the model file a fit named 'bail' writes
BailModel == join(workDir, make_output_path(None, Bail, "psf"))

\* C24: when the Fallback is triggered (a fit of the escalation loop reports
\* non-convergence), make returns, and the model path it reports is the one
\* the Fallback fit produced, not that of a level or of the final name.
C24_ReportsFallbackModel ==
    \A i \in 1..Len(log) :
        (LevelNotConvergedAt(i) /\ MakeEnded) =>
            pc = "done" /\ psfPathReturned = BailModel

\* the log's entry i opens a call of _iteratePSF
IsIterAt(i) == log[i].op = "_iteratePSF"

\* a fit at level l that returned is in the log before entry i
FittedBefore(l, i) ==
    \E j \in 1..(i - 1) :
        log[j].op = "make_psf" /\ log[j].name = itername(l) /\ log[j].va = <<l>>
            /\ log[j].res = 0

\* C31: the escalation loop fits at least once at every level before it
\* consults the cull for that level, and takes the levels in increasing
\* order 0, 1, ... maxVarPSF: the cull is only consulted right after a fit
\* of the level's call; a level is entered only after every lower level was
\* fitted, and the final call only after every level was; the levels of
\* successive fits never decrease.
C31_EscalationOrder ==
    /\ pc = "cull" =>
        /\ log[Len(log)].op = "make_psf"
        /\ log[Len(log)].name = itName /\ log[Len(log)].va = itVar
    /\ \A i \in 1..Len(log) :
        IsIterAt(i) =>
            /\ log[i].va[1] \in 0..maxVarPSF
            /\ \A l \in 0..(log[i].va[1] - 1) : FittedBefore(l, i)
            /\ log[i].name = Fin => log[i].va[1] = maxVarPSF /\ FittedBefore(maxVarPSF, i)
            /\ log[i].name # Fin => log[i].name = itername(log[i].va[1])
    /\ \A i, j \in 1..Len(log) :
        (i < j /\ log[i].op = "make_psf" /\ log[j].op = "make_psf")
            => log[i].va[1] <= log[j].va[1]

\* C31's case: with maxVarPSF = 2 the final call has begun, after a level
\* at which a star was culled and the fit repeated
C31_Witness ==
    /\ maxVarPSF = 2
    /\ \E i \in 1..Len(log) : IsIterAt(i) /\ log[i].name = Fin
    /\ \E i, j \in 1..Len(log) :
        /\ i < j /\ log[i].op = "make_psf" /\ log[j].op = "make_psf"
        /\ log[i].name = itername(1) /\ log[j].name = itername(1) /\ log[i].flagged

\* C35: for every maxVarPSF, those below 0 included, the step that follows
\* the loop opens the final call of _iteratePSF with a defined level, the
\* last level the loop used.
C35_FinalLevelDefined ==
    [][(pc = "for" /\ rangeI > maxVarPSF) =>
          /\ pc' = "substar" /\ itName' = Fin
          /\ itVar' # <<>> /\ itVar' = varPSF
          /\ err' = ""]_vars

\* the log's entry is a shutdown
IsShutdown(en) == en.op = "shutdown"

\* C34: nothing is issued to a session after its shutdown, and every session
\* make has started is shut down exactly once: a shutdown is the log's last
\* entry, and when make has ended with a session started the log holds
\* exactly one shutdown and the session is gone.
C34_ShutdownOnceAndLast ==
    /\ \A i \in 1..Len(log) : IsShutdown(log[i]) => i = Len(log)
    /\ (MakeEnded /\ daophot # "unbuilt") =>
        /\ Len(SelectSeq(log, IsShutdown)) = 1
        /\ daophot = "None"

\* the fits issued by the call of _iteratePSF the log's entry i opens
FitsOfCall(i) ==
    {j \in (i + 1)..Len(log) : log[j].op = "make_psf" /\ IterOf(j) = i}

\* C36: at one level the subtract/fit/cull loop ends: a call of _iteratePSF
\* that starts with n candidates issues at most n + 1 fits, since a cull
\* that has the loop repeat has removed a candidate; and every fit of the
\* call but its last one flagged a star.
C36_CullLoopBounded ==
    /\ \A i \in 1..Len(log) :
        IsIterAt(i) => Cardinality(FitsOfCall(i)) <= log[i].stars + 1
    /\ \A i \in 1..Len(log) :
        IsIterAt(i) =>
            \A j, k \in FitsOfCall(i) : j < k => log[j].flagged

\* C36's case: a call that started with two candidates has issued three
\* fits, two of them flagging a candidate, and its last cull has returned
\* false
C36_Witness ==
    /\ pc \in {"for", "finish"}
    /\ \E i \in 1..Len(log) :
        /\ IsIterAt(i) /\ log[i].stars = 2
        /\ Cardinality(FitsOfCall(i)) = 3
        /\ Cardinality({j \in FitsOfCall(i) : log[j].flagged}) = 2

\* this step issues a fit
FitIssued == Len(log') = Len(log) + 1 /\ log'[Len(log')].op = "make_psf"

\* C37: whenever make issues a fit, the list file the fit is given holds
\* exactly the picker's candidates at that moment, and the fit changes
\* neither; a cull that returns leaves the file equal to the candidates, so
\* the two do not part between a cull and the next fit (a cull that raises
\* part-way ends make, and no fit follows it).
C37_FitReadsCurrentCandidates ==
    [][ /\ FitIssued => (lstFile = <<candidates>> /\ UNCHANGED <<lstFile, candidates>>)
        /\ (pc = "cull" /\ pc' # "raised") => lstFile' = <<candidates'>>
        /\ pc = "raised" => ~FitIssued ]_vars

\* C37's case: a fit has been issued on the list a cull wrote after taking
\* a candidate away
C37_Witness ==
    /\ pc = "cull"
    /\ Len(candidates) = 1 /\ lstFile = <<candidates>>
    /\ \E i \in 1..Len(log) :
        /\ IsIterAt(i) /\ log[i].stars = 2
        /\ Cardinality(FitsOfCall(i)) = 2
        /\ log[Len(log)].op = "make_psf" /\ IterOf(Len(log)) = i

\* a driver operation has raised TIMEOUT
TimedOut == ret.raised = "TIMEOUT"

\* C20: when a prompt does not come before the timeout in a driver
\* operation, the operation fails fatally: make ends by raising the TIMEOUT
\* to its caller, the operation that timed out is the last one issued (it is
\* not tried again), and from then on nothing is sent to the session and
\* nothing of the session changes.
C20_TimeoutIsFatal ==
    /\ [](TimedOut => /\ pc = "raised" /\ err = "TIMEOUT"
                      /\ log[Len(log)].op = ret.op)
    /\ [][TimedOut => UNCHANGED <<log, driverVars>>]_vars

\* find timed out during make, after the analytic option and before any
\* photometry
C20_Witness ==
    /\ ret = Raised("find", "TIMEOUT")
    /\ pc = "raised" /\ err = "TIMEOUT"
    /\ log[Len(log)] = Op("find")
    /\ va = <<-1>>

----------------------------------------------------------------------------
(* Claims about make with findHiddenStars or clean set, under SpecMakeOptions *)

\* C21: a failure inside the hidden-star pass is not fatal to the main
\* loop: whatever happens in detectHiddenStars, make goes on to the next
\* level or to the final fit (or, after the final fit, to its return).
C21_HiddenStarFailureNotFatal ==
    [][pc = "hidden" => pc' \in {"for", "finish"} /\ err' = ""]_vars

\* what make returns at line 122: the final model, the revised pick list,
\* the coordinates and the aperture photometry
FinalOutputs ==
    {psfPathReturned, pickPath, get_path(pathCache, Last, "coo"),
     get_path(pathCache, Last, "ap")}

\* the model and neighbour list a fit named `name` writes, and the
\* neighbour-subtracted image of a call of _iteratePSF named `name`
FitFiles(name) ==
    LET psf == make_output_path(None, name, "psf")
    IN {join(workDir, psf), join(workDir, nei_of(psf))}
SubNeiFile(name) == join(workDir, basename(neiSubPathOf(name)))

\* the intermediate artifacts of make(maxVarPSF = n): those of the initial
\* fit and of every level, every neighbour-subtracted image and every
\* neighbour list
Intermediates(n) ==
    FitFiles(Init_)
        \cup UNION {FitFiles(itername(k)) \cup {SubNeiFile(itername(k))} : k \in 0..n}
        \cup {SubNeiFile(Fin), join(workDir, nei_of(make_output_path(None, Fin, "psf")))}

\* C23: _clean deletes neither the original image, nor its flag image, nor
\* an output make returns, and when it is done no intermediate artifact of
\* the image is left, for every maxVarPSF make takes.
C23_CleanKeepsAndSweeps ==
    [][pc = "clean" =>
        /\ (({inputImagePath, flagPath} \cup FinalOutputs) \cap files) \subseteq files'
        /\ pc' = "done" => Intermediates(maxVarPSF) \cap files' = {}]_vars

----------------------------------------------------------------------------
(* Claims about the driver and its path cache, under Spec *)

\* the three reports of a returned make_psf
FitSucceeded == ~ret.text.isNone /\ ret.a # None /\ ret.b # None
FitFailed == ret.text.isNone /\ ret.a = None /\ ret.b = None

\* C4 as claimed: make_psf reports the neighbour-file marker as success, the
\* non-convergence phrase as failure, and 'Command:' as an outcome of its
\* own, not as the failure.
C4_ThreeOutcomes ==
    (ret.op = "make_psf" /\ ret.raised = "") =>
        /\ result = 0 => FitSucceeded
        /\ result = 1 => FitFailed
        /\ result = 2 => ~FitFailed

\* C4 as amended: make_psf reports two outcomes; the neighbour-file marker is
\* success (text and both paths), and both the non-convergence phrase and
\* 'Command:' are the same failure (None, None, None).
C4_TwoOutcomes ==
    (ret.op = "make_psf" /\ ret.raised = "") =>
        /\ result \in {0, 1, 2}
        /\ result = 0 => FitSucceeded /\ ~FitFailed
        /\ result \in {1, 2} => FitFailed /\ ~FitSucceeded

\* C4's case: a fit whose output matched 'Command:' alone has returned
C4_Witness == ret.op = "make_psf" /\ ret.raised = "" /\ result = 2 /\ FitFailed

\* C6 as claimed: every non-empty name given to _name_path resolves to the
\* path it was last given with, whatever operations followed.
C6_RegisteredResolves ==
    \A ext \in Exts : \A name \in DOMAIN named[ext] :
        name # <<>> => resolve_path(pathCache, name, ext) = named[ext][name]

\* C6 as amended: the same for every non-empty name other than the reserved
\* 'last', which every producing operation of the category files anew.
C6_RegisteredResolvesExceptLast ==
    \A ext \in Exts : \A name \in DOMAIN named[ext] :
        (name # <<>> /\ name # Last) => resolve_path(pathCache, name, ext) = named[ext][name]

\* C6's case: a name was registered with a path that has a directory, and an
\* operation that followed has filed another path under 'last' of the category
C6_Witness ==
    \E ext \in Exts :
        /\ <<"a">> \in DOMAIN named[ext]
        /\ named[ext][<<"a">>] = <<"d", "/", "p">>
        /\ Last \in DOMAIN pathCache[ext]
        /\ pathCache[ext][Last] # named[ext][<<"a">>]
        /\ ret.op # "_name_path"

\* arguments to resolve: names, file names, paths with directories
ResolveArgs ==
    RefArgs \cup {<<>>, <<"q">>, <<"d", "/">>, <<"/", "q">>, <<"d", "/", "e", "/", "q", ".", "x">>}

\* r is what follows the last '/' of p (all of p when it has none)
IsFinalComponent(r, p) ==
    /\ \A i \in 1..Len(r) : r[i] # "/"
    /\ \E k \in 0..Len(p) :
        /\ p = SubSeq(p, 1, k) \o r
        /\ k > 0 => p[k] = "/"

C8_NoOpEmptyOrUnset ==
    [][\A name \in {None, <<>>} : \A ext \in Exts :
        name_path_call(name, <<"d", "/", "p">>, ext) => pathCache' = pathCache]_vars

\* C8 as amended: _name_path with the name None leaves the cache as it was;
\* an empty name is filed like any other name.
C8_NoOpUnset ==
    [][\A ext \in Exts :
        /\ name_path_call(None, <<"d", "/", "p">>, ext) => pathCache' = pathCache
        /\ name_path_call(<<>>, <<"d", "/", "p">>, ext) =>
            /\ <<>> \in DOMAIN pathCache'[ext]
            /\ pathCache'[ext][<<>>] = <<"d", "/", "p">>]_vars

\* C8's case: _name_path has been called with None (the cache is as built)
\* or with '' (which is now a key)
C8_Witness ==
    /\ ret.op = "_name_path"
    /\ \/ nOps = 1 /\ pathCache = InitCache
       \/ \E ext \in Exts : <<>> \in DOMAIN pathCache[ext]

\* the category of the artifact an operation produces
CategoryOf(op) ==
    CASE op = "find" -> "coo"
      [] op = "apphot" -> "ap"
      [] op = "pick_psf_stars" -> "lst"
      [] op = "make_psf" -> "psf"
      [] op = "substar" -> "fits"

\* C9: when a producing operation returns, 'last' of the category of the
\* artifact it produced is that artifact; after substar, 'last' of the image
\* category is the star-subtracted image.
C9_ProducerSetsLast ==
    (ret.raised = "" /\ ret.out # None) =>
        /\ Last \in DOMAIN pathCache[CategoryOf(ret.op)]
        /\ pathCache[CategoryOf(ret.op)][Last] = ret.out

\* C10 as claimed: every category of the cache holds the name 'last'.
C10_EveryCategoryHasLast == \A ext \in Exts : Last \in DOMAIN pathCache[ext]

\* the categories find, apphot, pick_psf_stars and make_psf file a 'last' in
FiledBy(op) ==
    CASE op = "find" -> {"coo"}
      [] op = "apphot" -> {"ap"}
      [] op = "pick_psf_stars" -> {"lst"}
      [] op = "make_psf" -> {"psf", "nei"}
      [] OTHER -> {}

\* C10 as amended: the image category always holds 'last'; each other
\* category holds it from the first find (coo), apphot (ap), pick_psf_stars
\* (lst) or make_psf (psf, nei) that returns, and no category loses it.
C10_LastOnceProduced ==
    /\ [](Last \in DOMAIN pathCache["fits"])
    /\ [](ret.raised = "" => \A ext \in FiledBy(ret.op) : Last \in DOMAIN pathCache[ext])
    /\ [][\A ext \in Exts :
            Last \in DOMAIN pathCache[ext] => Last \in DOMAIN pathCache'[ext]]_vars

\* C10's case: find has returned and filed a 'last' coordinate file, while
\* the photometry category, with nothing produced, still has none
C10_Witness ==
    /\ ret.op = "find" /\ ret.raised = ""
    /\ Last \in DOMAIN pathCache["coo"]
    /\ Last \notin DOMAIN pathCache["ap"]

\* this step is a fit that reported non-convergence
FitFailedNow == nOps' # nOps /\ ret'.op = "make_psf" /\ ret'.raised = "" /\ result' \in {1, 2}

\* C25: a failed fit does not alter what the path cache refers to: after
\* make_psf reports non-convergence, 'last' of the model and neighbour-list
\* categories and every name registered for a model are as they were, i.e.
\* still those of the most recent successfully produced artifacts.
C25_FailedFitKeepsCache ==
    [][FitFailedNow => /\ pathCache'["psf"] = pathCache["psf"]
                       /\ pathCache'["nei"] = pathCache["nei"]]_vars

\* the file the process writes in this step is not there once the operation
\* has removed the files in `removes`
Clear(removes) == join(workDir, ret'.out) \notin files \ removes

\* the destination _make_output_path clears
Destination(path, name, ext) == {join(workDir, make_output_path(path, name, ext))}

\* C26: for every producing operation, when the output file name is sent to
\* the process no file exists at the destination the process writes to:
\* every file that was there has been removed by the operation.
C26_NoFileAtDestination ==
    [][ /\ ~dead
        /\ nOps' # nOps
        => /\ \A cooName \in OpNames, cooPath \in PathArgs :
                find(cooName, cooPath) => Clear(Destination(cooPath, cooName, "coo"))
           /\ \A photOutputName \in OpNames, photOutputPath \in PathArgs :
                apphot(Last, photOutputPath, photOutputName)
                    => Clear(Destination(photOutputPath, photOutputName, "ap"))
           /\ \A apPhot \in {Last, <<"d", "/", "p">>}, starListName \in OpNames,
                 starListPath \in PathArgs :
                pick_psf_stars(apPhot, starListPath, starListName)
                    => Clear(Destination(starListPath, starListName, "lst"))
           /\ \A psfName \in OpNames, output \in FitOutputs, flags \in {<<>>, <<1>>} :
                (make_psf(Last, Last, None, psfName, output, flags) /\ ret'.out # None)
                    => Clear(Destination(None, psfName, "psf"))
           /\ \A outputPath \in PathArgs \ {None} :
                (substar(<<"m", ".", "n", "e", "i">>, Last, outputPath) /\ ret'.out # None)
                    => Clear({outputPath})
      ]_vars


----------------------------------------------------------------------------
(* The flags cullWithFitResults reads in a fit's text, psfpipe.py 439-461 *)

\* the decimal digits, by value
Digits == <<"0", "1", "2", "3", "4", "5", "6", "7", "8", "9">>
IsDigit(c) == \E d \in 1..Len(Digits) : Digits[d] = c
DigitVal(c) == (CHOOSE d \in 1..Len(Digits) : Digits[d] = c) - 1

\* the characters str.strip() and int() take for white space
WhiteSpace == {" ", "\t", "\n", "\r"}

\* str.split("\n")
RECURSIVE split(_)
split(text) ==
    LET I == {i \in 1..Len(text) : text[i] = "\n"}
    IN IF I = {} THEN <<text>>
       ELSE LET i == CHOOSE k \in I : \A j \in I : k <= j
            IN <<SubSeq(text, 1, i - 1)>> \o split(SubSeq(text, i + 1, Len(text)))

\* str.strip()
RECURSIVE strip(_)
strip(s) ==
    IF s # <<>> /\ s[1] \in WhiteSpace THEN strip(Tail(s))
    ELSE IF s # <<>> /\ s[Len(s)] \in WhiteSpace THEN strip(SubSeq(s, 1, Len(s) - 1))
    ELSE s

\* the value of a string of digits
RECURSIVE DigitsVal(_)
DigitsVal(s) ==
    IF s = <<>> THEN 0
    ELSE 10 * DigitsVal(SubSeq(s, 1, Len(s) - 1)) + DigitVal(s[Len(s)])

\* int(s): white space around the number and a sign before it are accepted;
\* anything else, the empty string included, raises ValueError
int(s) ==
    LET t == strip(s)
        signed == t # <<>> /\ t[1] \in {"+", "-"}
        d == IF signed THEN Tail(t) ELSE t
    IN IF d # <<>> /\ \A i \in 1..Len(d) : IsDigit(d[i])
       THEN [raised |-> FALSE,
             value |-> IF signed /\ t[1] = "-" THEN 0 - DigitsVal(d) ELSE DigitsVal(d)]
       ELSE [raised |-> TRUE, value |-> 0]

\* the literal part of the pattern of line 444
NotAGoodStar ==
    <<" ", "i", "s", " ", "n", "o", "t", " ", "a", " ", "g", "o", "o", "d", " ",
      "s", "t", "a", "r">>

\* the length of the longest run of characters of S that starts at s[from]
RECURSIVE Run(_, _, _)
Run(s, from, S) ==
    IF from <= Len(s) /\ s[from] \in S THEN 1 + Run(s, from + 1, S) ELSE 0

\* s has lit at index i, and one more character after it
HasThenAny(s, lit, i) ==
    /\ i + Len(lit) <= Len(s)
    /\ SubSeq(s, i, i + Len(lit) - 1) = lit

\* re.match with the first pattern but without its leading class [ \n\t]*
match_noblanks(line) ==
    LET m == Run(line, 1, {Digits[d] : d \in 1..Len(Digits)})
    IN IF HasThenAny(line, NotAGoodStar, m + 1)
       THEN [matched |-> TRUE, group |-> SubSeq(line, 1, m)]
       ELSE [matched |-> FALSE, group |-> <<>>]

\* re.match("[ \n\t]*([0-9]*) is not a good star.[\n]*", line), lines 444-445.
\* The blanks and the digits are taken greedily; the final '.' of the pattern
\* stands for any one character.  When no digit follows the blanks, the
\* pattern still matches by giving the last blank back to the literal's
\* leading blank, and the group is then empty.
match(line) ==
    LET K == Run(line, 1, {" ", "\n", "\t"})
        m == Run(line, K + 1, {Digits[d] : d \in 1..Len(Digits)})
    IN IF HasThenAny(line, NotAGoodStar, K + m + 1)
       THEN [matched |-> TRUE, group |-> SubSeq(line, K + 1, K + m)]
       ELSE IF K >= 1 /\ HasThenAny(line, NotAGoodStar, K)
       THEN [matched |-> TRUE, group |-> <<>>]
       ELSE [matched |-> FALSE, group |-> <<>>]

\* lines 443-448: the groups of the lines that match, in order; int raises
\* ValueError on an empty group, and nothing catches it there
RECURSIVE notGoodStars(_)
notGoodStars(lines) ==
    IF lines = <<>> THEN [raised |-> "", badStars |-> <<>>]
    ELSE LET mt == match(Head(lines))
             n == int(mt.group)
             rest == notGoodStars(Tail(lines))
         IN IF ~mt.matched THEN rest
            ELSE IF n.raised THEN [raised |-> "ValueError", badStars |-> <<>>]
            ELSE IF rest.raised # "" THEN rest
            ELSE [raised |-> "", badStars |-> <<n.value>> \o rest.badStars]

\* the marker positions with the last one mistyped
flagPositions_mistyped == <<15, 32, 49, 66, 84>>

\* line 452: the 0-based character positions of the '?' flags
flagPositions == <<15, 32, 49, 66, 83>>

\* lines 455-461 on one line, from the i-th flag position on: an index past
\* the line's end or an identifier field int does not accept ends the line
\* (the bare except), keeping what was appended before
RECURSIVE flagged(_, _)
flagged(line, i) ==
    IF i > Len(flagPositions) THEN <<>>
    ELSE LET flagPos == flagPositions[i]
         IN IF flagPos >= Len(line) THEN <<>>
            ELSE IF line[flagPos + 1] \in {"?", "*"}
            THEN LET n == int(SubSeq(line, flagPos - 14, flagPos - 8))
                 IN IF n.raised THEN <<>> ELSE <<n.value>> \o flagged(line, i + 1)
            ELSE flagged(line, i + 1)

\* lines 453-461 over all the lines
RECURSIVE flaggedStars(_)
flaggedStars(lines) ==
    IF lines = <<>> THEN <<>>
    ELSE flagged(Head(lines), 1) \o flaggedStars(Tail(lines))

\* lines 439-461: badStars as cullWithFitResults fills it from fitText
badStarsIn(text) ==
    LET lines == split(text)
        first == notGoodStars(lines)
    IN IF first.raised # "" THEN first
       ELSE [raised |-> "", badStars |-> first.badStars \o flaggedStars(lines)]

----------------------------------------------------------------------------
(* Diagnostic texts, after the two shapes of psfpipe.py 431-434 *)

\* str(n), n >= 0
RECURSIVE str(_)
str(n) ==
    IF n < 10 THEN <<Digits[n + 1]>>
    ELSE str(n \div 10) \o <<Digits[(n % 10) + 1]>>

\* k blanks
Blanks(k) == [i \in 1..k |-> " "]

\* s right-aligned in w columns
RightAlign(s, w) == Blanks(w - Len(s)) \o s

\* the most blanks a sentence line is indented by
MaxBlanks == 3

\* a line of the first shape: blanks, the identifier's digits (none when id
\* is -1), the sentence and the character that ends it (none when tail is "")
SentenceLine(src) ==
    Blanks(src.blanks) \o (IF src.id < 0 THEN <<>> ELSE str(src.id))
        \o NotAGoodStar \o (IF src.tail = "" THEN <<>> ELSE <<src.tail>>)

\* an entry of a line of the second shape: the identifier in 7 columns, the
\* star's profile error in 7 columns, a blank and the marker
TableEntry(e) ==
    RightAlign(str(e.id), 7) \o <<" ", " ", "0", ".", "0", "5", "4">> \o <<" ", e.mark>>

\* a line of the second shape: up to five entries, a blank between them
RECURSIVE TableLine(_)
TableLine(entries) ==
    IF entries = <<>> THEN <<>>
    ELSE IF Len(entries) = 1 THEN TableEntry(entries[1])
    ELSE TableEntry(entries[1]) \o <<" ">> \o TableLine(Tail(entries))

\* the identifiers of the entries of the line quoted at line 433
EntryIds == <<2051, 1648, 1342, 471, 1522>>

\* the markers of an entry: none, '?' and '*'
Marks == {" ", "?", "*"}

\* what a line is made from
SentenceSources ==
    [kind : {"sentence"}, blanks : 0..MaxBlanks, id : {-1, 7, 15, 2182},
     tail : {".", "!", ""}, marks : {<<>>}, rev : {FALSE}]
TableSources ==
    [kind : {"table"}, blanks : {0}, id : {0}, tail : {""},
     marks : UNION {[1..n -> Marks] : n \in 1..Len(EntryIds)}, rev : BOOLEAN]

\* the identifier of the i-th entry of a table line: the quoted line's, in
\* its order or in the reverse order
EntryId(src, i) == IF src.rev THEN EntryIds[Len(EntryIds) + 1 - i] ELSE EntryIds[i]

\* the entries of a table line
EntriesOf(src) ==
    [i \in 1..Len(src.marks) |-> [id |-> EntryId(src, i), mark |-> src.marks[i]]]

\* the line made from a source
LineOf(src) ==
    IF src.kind = "sentence" THEN SentenceLine(src) ELSE TableLine(EntriesOf(src))

\* the text of the given lines, each ended by a newline
RECURSIVE TextOf(_)
TextOf(srcs) ==
    IF srcs = <<>> THEN <<>>
    ELSE LineOf(Head(srcs)) \o <<"\n">> \o TextOf(Tail(srcs))

\* the texts parsed: every line alone, and a sentence line before or after
\* another line
SecondLines ==
    {l \in SentenceSources : l.blanks = MaxBlanks /\ l.tail = "."}
        \cup {l \in TableSources : Len(l.marks) = 2}
TextSources ==
    {<<l>> : l \in SentenceSources \cup TableSources}
        \cup {<<a, b>> : a \in {l \in SentenceSources : l.blanks = MaxBlanks /\ l.tail = "."},
                         b \in SecondLines}
        \cup {<<b, a>> : a \in {l \in SentenceSources : l.blanks = MaxBlanks /\ l.tail = "."},
                         b \in {l \in TableSources : Len(l.marks) = 2}}

\* a text is given
InitParse ==
    /\ SessionInit /\ MakeIdle
    /\ apCatalog = {} /\ pickerCall = NoPicker
    /\ outputCall = NoOutputCall /\ pickCatalog = NoPickCatalog
    /\ factory = NoFactory
    /\ \E srcs \in TextSources :
        parsing = [stage |-> "text", src |-> srcs, fitText |-> TextOf(srcs),
                   raised |-> "", badStars |-> <<>>]

\* lines 439-461 run on the text
ReadBadStars ==
    /\ parsing.stage = "text"
    /\ parsing' = [parsing EXCEPT !.stage = "read",
                                  !.raised = badStarsIn(parsing.fitText).raised,
                                  !.badStars = badStarsIn(parsing.fitText).badStars]
    /\ UNCHANGED <<driverVars, nOps, makeVars, apCatalog, pickerCall, outputCall,
                   pickCatalog, factory>>

NextParse == ReadBadStars

SpecParse == InitParse /\ [][NextParse]_vars

\* C33: every driver operation that returns normally, make_psf on each of
\* its three outcomes included, has matched and consumed the 'Command:'
\* prompt that ends it: it leaves no output of the process unread for the
\* next operation's first expect.
C33_PromptConsumed ==
    (ret.raised = "" /\ ret.op \in {"set_option", "attach", "find", "apphot",
                                    "pick_psf_stars", "make_psf", "substar"})
        => ret.unread = <<>>

----------------------------------------------------------------------------
(* Claims about the flags read in a text, under SpecParse *)

\* a sentence line of the form '<blanks><digits> is not a good star.'
IsSentence(l) == l.kind = "sentence" /\ l.id >= 0 /\ l.tail = "."

\* the numbers of the sentence lines of a text, in the order of the lines
RECURSIVE SentenceIds(_)
SentenceIds(srcs) ==
    IF srcs = <<>> THEN <<>>
    ELSE (IF IsSentence(Head(srcs)) THEN <<Head(srcs).id>> ELSE <<>>)
             \o SentenceIds(Tail(srcs))

\* the text's lines are table lines and sentence lines of that form
LinesOfTheForms(srcs) ==
    \A i \in 1..Len(srcs) : srcs[i].kind = "sentence" => IsSentence(srcs[i])

\* C15: every line of the form '<blanks><digits> is not a good star.'
\* contributes its number to the flagged identifiers, once, in the order of
\* the lines; a text of such lines only flags nothing else, so that
\* '   2182 is not a good star.\n' flags exactly 2182.
C15_SentenceFlagsItsNumber ==
    (parsing.stage = "read" /\ LinesOfTheForms(parsing.src)) =>
        LET ids == SentenceIds(parsing.src)
        IN /\ parsing.raised = ""
           /\ Len(parsing.badStars) >= Len(ids)
           /\ SubSeq(parsing.badStars, 1, Len(ids)) = ids
           /\ (\A i \in 1..Len(parsing.src) : parsing.src[i].kind = "sentence")
                => parsing.badStars = ids

\* C15's case: the text '   2182 is not a good star.\n' has been read and
\* badStars is [2182]
C15_Witness ==
    /\ parsing.stage = "read"
    /\ parsing.fitText = <<" ", " ", " ", "2", "1", "8", "2", " ", "i", "s", " ", "n",
                           "o", "t", " ", "a", " ", "g", "o", "o", "d", " ", "s", "t",
                           "a", "r", ".", "\n">>
    /\ parsing.badStars = <<2182>>

\* C16: in a table line, the identifier of every entry whose marker (at
\* offset 15, 32, 49, 66 or 83) is '?' is flagged, and the identifier of an
\* entry without a marker is not, whatever the other entries of the line
\* carry.
C16_MarkerFlagsItsEntry ==
    (parsing.stage = "read" /\ parsing.raised = "") =>
        \A l \in 1..Len(parsing.src) :
            parsing.src[l].kind = "table" =>
                \A i \in 1..Len(parsing.src[l].marks) :
                    /\ parsing.src[l].marks[i] = "?"
                         => In(parsing.badStars, EntryId(parsing.src[l], i))
                    /\ parsing.src[l].marks[i] = " "
                         => ~In(parsing.badStars, EntryId(parsing.src[l], i))

\* C16's case: a line whose one entry, 1522, has '?' at offset 15 has been
\* read, and so has the quoted line, whose fifth entry, 1522, has '?' at
\* offset 83; each flags 1522 alone
C16_Witness ==
    /\ parsing.stage = "read"
    /\ parsing.badStars = <<1522>>
    /\ \/ /\ Len(parsing.fitText) = 17
          /\ parsing.fitText[16] = "?"
          /\ SubSeq(parsing.fitText, 1, 7) = <<" ", " ", " ", "1", "5", "2", "2">>
       \/ /\ Len(parsing.fitText) = 85
          /\ parsing.fitText[84] = "?"
          /\ SubSeq(parsing.fitText, 69, 75) = <<" ", " ", " ", "1", "5", "2", "2">>

\* a sentence line that is of neither flag form: no digits before the
\* sentence, or nothing after 'star'
IsOfNeitherForm(l) == l.kind = "sentence" /\ (l.id < 0 \/ l.tail = "")

\* C32: a text whose lines match neither flag form is never an error:
\* reading the flags of any text raises nothing, and a text made only of
\* sentence lines without digits or without an end flags nothing.
C32_UnmatchedTextNeverRaises ==
    parsing.stage = "read" =>
        /\ parsing.raised = ""
        /\ (\A i \in 1..Len(parsing.src) : IsOfNeitherForm(parsing.src[i]))
             => parsing.badStars = <<>>

----------------------------------------------------------------------------
(* A StarPicker used directly, psfpipe.py 254-474: any caller, any         *)
(* operation, any flag map, bright-star field, pick list and fit text      *)

\* the elements of a list
Range(list) == {list[i] : i \in 1..Len(list)}

\* getStarIDs(): the keys of a catalog, which for these small integers a
\* dict lists in ascending order
RECURSIVE getStarIDs(_)
getStarIDs(keys) ==
    IF keys = {} THEN <<>>
    ELSE LET least == CHOOSE k \in keys : \A j \in keys : k <= j
         IN <<least>> \o getStarIDs(keys \ {least})

\* lines 326-330 and 400-409: `for star in self.candidates:` looks the star
\* up in the catalog and removes it from the very list the loop is walking
\* when it is rejected, so the loop's index then passes over the star that
\* moved into the removed one's place.  A star the catalog lacks raises
\* KeyError, keeping the removals made.
RECURSIVE rejectFrom(_, _, _, _)
rejectFrom(cands, i, keys, rejected) ==
    IF i > Len(cands) THEN [candidates |-> cands, raised |-> ""]
    ELSE IF cands[i] \notin keys THEN [candidates |-> cands, raised |-> "KeyError"]
    ELSE IF cands[i] \in rejected
         THEN rejectFrom(RemoveFirst(cands, cands[i]), i + 1, keys, rejected)
    ELSE rejectFrom(cands, i + 1, keys, rejected)

\* filterOnFlagMap building the list anew from the catalog's stars
filterOnFlagMap_fromCatalog(cands, keys, onFlagged) ==
    [candidates |-> getStarIDs(keys \ onFlagged), raised |-> ""]

\* filterOnFlagMap(flagPath), the stars of onFlagged lying on flagged pixels
filterOnFlagMap(cands, keys, onFlagged) == rejectFrom(cands, 1, keys, onFlagged)

\* filterBright2MASSByDistance(radius, magThreshold, band) for band "J" or
\* "Ks", the stars of nearBright lying within the radius of a bright star
filterBright2MASSByDistance(cands, keys, nearBright) ==
    rejectFrom(cands, 1, keys, nearBright)

\* write(outputPath), lines 280-291: every candidate is looked up in the
\* catalog (KeyError when it is not a key) before the list is written;
\* writing to the path None raises TypeError (io.py 282)
write(cands, keys, outputPath) ==
    IF \E i \in 1..Len(cands) : cands[i] \notin keys THEN "KeyError"
    ELSE IF outputPath = None THEN "TypeError"
    ELSE ""

\* the fit texts a caller culls with: an empty one, a table line without a
\* marker, a sentence without a number, and for the stars n, m a sentence
\* about n, a table line marking n, and a sentence about n with a table
\* line marking m
Sentence(n) == SentenceLine([blanks |-> MaxBlanks, id |-> n, tail |-> "."]) \o <<"\n">>
Marked(n, mark) == TableLine(<<[id |-> n, mark |-> mark]>>) \o <<"\n">>
PickerTexts ==
    {<<>>, Marked(1, " "), Sentence(-1)}
        \cup {Sentence(n) : n \in StarIds}
        \cup {Marked(n, "?") : n \in StarIds}
        \cup {Sentence(n) \o Marked(m, "?") : n, m \in StarIds}

\* what lines 439-461 read in these texts
PickerFlags == {badStarsIn(text) : text \in PickerTexts}

\* StarPicker(daophot, daophotName, inputImagePath): the catalog holds the
\* stars FIND numbered 1..n, and all of them are candidates
InitPicker ==
    /\ SessionInit /\ NoMake
    /\ parsing = NoParsing /\ outputCall = NoOutputCall /\ pickCatalog = NoPickCatalog
    /\ factory = NoFactory
    /\ \E n \in 0..MaxStars : apCatalog = 1..n
    /\ candidates = getStarIDs(apCatalog)
    /\ lstFile = <<>>
    /\ pickerCall = [NoPicker EXCEPT !.op = "__init__"]

\* what a StarPicker operation leaves alone
PickerOnly ==
    UNCHANGED <<driverVars, nOps, options, pc, maxVarPSF, varPSF, rangeI, itVar, itName,
                mkNeiPath, itNeiPath, fitText, log, err, apCatalog, parsing,
                outputCall, pickCatalog, factory>>

\* the call just made
PickerCalled(op, returned, raised, flags) ==
    pickerCall' = [op |-> op, before |-> candidates, returned |-> returned,
                   raised |-> raised, flags |-> flags]

\* useDaophotPicks(): the candidates become the stars of the pick list the
\* session has under daophotName, whatever photometry PICK made it from
PkUseDaophotPicks ==
    /\ pickerCall.op # ""
    /\ \E picks \in SUBSET StarIds : candidates' = getStarIDs(picks)
    /\ PickerCalled("useDaophotPicks", "None", "", NoPicker.flags)
    /\ UNCHANGED lstFile
    /\ PickerOnly

PkFilterOnFlagMap ==
    /\ pickerCall.op # ""
    /\ \E onFlagged \in SUBSET apCatalog :
        LET f == filterOnFlagMap(candidates, apCatalog, onFlagged)
        IN /\ candidates' = f.candidates
           /\ PickerCalled("filterOnFlagMap", "None", f.raised, NoPicker.flags)
    /\ UNCHANGED lstFile
    /\ PickerOnly

PkFilterBright2MASSByDistance ==
    /\ pickerCall.op # ""
    /\ \E nearBright \in SUBSET apCatalog :
        LET f == filterBright2MASSByDistance(candidates, apCatalog, nearBright)
        IN /\ candidates' = f.candidates
           /\ PickerCalled("filterBright2MASSByDistance", "None", f.raised, NoPicker.flags)
    /\ UNCHANGED lstFile
    /\ PickerOnly

\* write(pickPath)
PkWrite ==
    /\ pickerCall.op # ""
    /\ LET raised == write(candidates, apCatalog, pickPath)
       IN /\ lstFile' = IF raised = "" THEN <<candidates>> ELSE lstFile
          /\ PickerCalled("write", "None", raised, NoPicker.flags)
    /\ UNCHANGED candidates
    /\ PickerOnly

\* cullWithFitResults(fitText), lines 439-474: the flags are read, the
\* flagged stars removed, the list written to self.outputPath (None until
\* write has been called) and whether badStars is non-empty returned
PkCullWithFitResults ==
    /\ pickerCall.op # ""
    /\ \E flags \in PickerFlags :
        LET c == IF flags.raised # ""
                 THEN [candidates |-> candidates, raised |-> flags.raised, culled |-> FALSE]
                 ELSE cullWithFitResults(candidates, Text(flags.badStars))
            w == write(c.candidates, apCatalog, IF lstFile = <<>> THEN None ELSE pickPath)
            raised == IF c.raised # "" THEN c.raised ELSE w
        IN /\ candidates' = c.candidates
           /\ lstFile' = IF raised = "" THEN <<c.candidates>> ELSE lstFile
           /\ PickerCalled("cullWithFitResults",
                           IF raised # "" THEN "None"
                           ELSE IF c.culled THEN "True" ELSE "False",
                           raised, flags)
    /\ PickerOnly

NextPicker ==
    \/ PkUseDaophotPicks
    \/ PkFilterOnFlagMap
    \/ PkFilterBright2MASSByDistance
    \/ PkWrite
    \/ PkCullWithFitResults

SpecPicker == InitPicker /\ [][NextPicker]_vars

----------------------------------------------------------------------------
(* Claims about the StarPicker, under SpecPicker *)

\* the latest operation was a cull
CullCalled == pickerCall.op = "cullWithFitResults"

\* the operations that filter the candidates
FilterOps == {"filterOnFlagMap", "filterBright2MASSByDistance", "cullWithFitResults"}

\* C11: cullWithFitResults returns true if and only if the candidate set after
\* the call is a strict subset of the candidate set before it, whatever the
\* text and the candidates, a text flagging a star that is not a candidate
\* included.
C11_TrueIffStrictSubset ==
    CullCalled =>
        (pickerCall.returned = "True"
            <=> (Range(candidates) \subseteq Range(pickerCall.before)
                    /\ Range(candidates) # Range(pickerCall.before)))

\* C12: a filter operation leaves a subset of the candidates it started
\* from, and no operation other than the reset useDaophotPicks ever adds a
\* candidate.
C12_FiltersOnlyRemove ==
    /\ [][pickerCall'.op \in FilterOps
            => Range(candidates') \subseteq Range(candidates)]_vars
    /\ [][Range(candidates') \subseteq Range(candidates)
            \/ pickerCall'.op = "useDaophotPicks"]_vars

\* C12's case: a filter has removed a candidate from a list that an earlier
\* filter operation had already left
C12_Witness ==
    /\ pickerCall.op \in {"filterOnFlagMap", "filterBright2MASSByDistance"}
    /\ Len(candidates) < Len(pickerCall.before)
    /\ Range(pickerCall.before) # apCatalog
    /\ Range(candidates) \subseteq Range(pickerCall.before)

\* C13: a cull with a text that flags no star returns false and leaves the
\* candidates as they were, each time it is applied.
C13_NoFlagsFixedPoint ==
    (CullCalled /\ pickerCall.flags.raised = "" /\ pickerCall.flags.badStars = <<>>) =>
        /\ pickerCall.returned = "False"
        /\ candidates = pickerCall.before

\* C19: every candidate is a key of the StarPicker's photometry catalog.
C19_CandidatesInCatalog == Range(candidates) \subseteq apCatalog

\* this step is the filter `op` returning, having rejected the stars of
\* `rejected` (f is what the filter computes for them)
Filtered(op, f) ==
    /\ pickerCall'.op = op /\ pickerCall'.raised = ""
    /\ f.raised = "" /\ candidates' = f.candidates

\* C28: after a filter completes no remaining candidate satisfies its
\* rejection predicate: after filterOnFlagMap no candidate lies on a flagged
\* pixel and after filterBright2MASSByDistance none lies within the radius
\* of a bright star, whatever the order of the candidates.
C28_NoRejectedCandidateLeft ==
    [][\A rejected \in SUBSET apCatalog :
        /\ Filtered("filterOnFlagMap", filterOnFlagMap(candidates, apCatalog, rejected))
            => Range(candidates') \cap rejected = {}
        /\ Filtered("filterBright2MASSByDistance",
                    filterBright2MASSByDistance(candidates, apCatalog, rejected))
            => Range(candidates') \cap rejected = {}]_vars

\* C29: cullWithFitResults removes every star flagged in the text (by a
\* sentence, a marker, or both) and persists the list: a cull of a readable
\* text flagging candidates, by a StarPicker whose list has been written
\* before, returns, and the candidates are then the previous ones without the
\* flagged ones, which is also the list persisted.
C29_CullRemovesFlagged ==
    (/\ CullCalled /\ pickerCall.flags.raised = ""
     /\ lstFile # <<>> /\ Range(pickerCall.before) \subseteq apCatalog
     /\ Range(pickerCall.flags.badStars) \subseteq Range(pickerCall.before)) =>
        /\ pickerCall.raised = ""
        /\ Range(candidates) = Range(pickerCall.before) \ Range(pickerCall.flags.badStars)
        /\ lstFile = <<candidates>>

----------------------------------------------------------------------------
(* PickCatalog, io.py 238-289: a star list set, written and read back.     *)
(* Positions, magnitudes and errors are counted in units of 0.0001.        *)

\* the stars a list is set from
MaxCatStars == 4

\* "%.3f" % v as the number of thousandths printed, for v >= 0 not halfway
\* between two thousandths
F3(v) == (v + 5) \div 10

\* "%.4f" % v as the number of ten-thousandths printed
F4(v) == v

\* float(item) of an item printed with d decimals
float(item, d) == IF d = 3 THEN item * 10 ELSE item

\* set_stars(serial, x, y, mag, magErr), lines 270-276: the entry of each
\* star; line 276 files mag[i] under 'mag_err'
set_stars(serial, x, y, mag, magErr) ==
    [star \in Range(serial) |->
        LET i == CHOOSE k \in 1..Len(serial) :
                    serial[k] = star /\ \A j \in (k + 1)..Len(serial) : serial[j] # star
        IN [x |-> x[i], y |-> y[i], mag |-> mag[i], mag_err |-> mag[i]]]

\* write(outputPath), lines 284-289: one line per star, in the order the
\* dict lists them, and no header line.  A line is given by its five items
\* "% 8i %.3f %.3f %.3f %.4f".
catalog_write(stars) ==
    LET ids == getStarIDs(DOMAIN stars)
    IN [n \in 1..Len(ids) |->
            <<ids[n], F3(stars[ids[n]].x), F3(stars[ids[n]].y),
              F3(stars[ids[n]].mag), F4(stars[ids[n]].mag_err)>>]

\* read(lstPath), lines 251-263: the first three lines are passed over as
\* header lines (lineNumber < 3); each other line is split into its items
catalog_read(lines) ==
    LET data == {n \in 1..Len(lines) : n - 1 >= 3}
    IN [star \in {lines[n][1] : n \in data} |->
            LET n == CHOOSE k \in data :
                        lines[k][1] = star /\ \A j \in data : lines[j][1] = star => j <= k
            IN [x |-> float(lines[n][2], 3), y |-> float(lines[n][3], 3),
                mag |-> float(lines[n][4], 3), mag_err |-> float(lines[n][5], 4)]]

\* the position given to the i-th star
PosX(i) == 100000 * i + 1234
PosY(i) == 200000 * i + 5678

\* the magnitudes and the magnitude errors given to a star
Mags == {150004, 160006}
MagErrs == {301, 1234}

\* a caller holds the lists of 1..MaxCatStars stars, numbered from 1
InitCatalog ==
    /\ SessionInit /\ MakeIdle
    /\ apCatalog = {} /\ pickerCall = NoPicker
    /\ parsing = NoParsing /\ outputCall = NoOutputCall
    /\ factory = NoFactory
    /\ \E n \in 1..MaxCatStars :
        \E mag \in [1..n -> Mags], magErr \in [1..n -> MagErrs] :
            pickCatalog = [stage |-> "lists", serial |-> [i \in 1..n |-> i],
                           x |-> [i \in 1..n |-> PosX(i)], y |-> [i \in 1..n |-> PosY(i)],
                           mag |-> mag, magErr |-> magErr,
                           stars |-> EmptyDict, lines |-> <<>>, read |-> EmptyDict]

\* what a PickCatalog operation leaves alone
CatalogOnly ==
    UNCHANGED <<driverVars, nOps, makeVars, apCatalog, pickerCall, parsing, outputCall,
                factory>>

CatSetStars ==
    /\ pickCatalog.stage = "lists"
    /\ pickCatalog' = [pickCatalog EXCEPT
            !.stage = "set",
            !.stars = set_stars(pickCatalog.serial, pickCatalog.x, pickCatalog.y,
                                pickCatalog.mag, pickCatalog.magErr)]
    /\ CatalogOnly

CatWrite ==
    /\ pickCatalog.stage = "set"
    /\ pickCatalog' = [pickCatalog EXCEPT !.stage = "written",
                                          !.lines = catalog_write(pickCatalog.stars)]
    /\ CatalogOnly

\* a second PickCatalog reads the file
CatRead ==
    /\ pickCatalog.stage = "written"
    /\ pickCatalog' = [pickCatalog EXCEPT !.stage = "read",
                                          !.read = catalog_read(pickCatalog.lines)]
    /\ CatalogOnly

NextCatalog ==
    \/ CatSetStars
    \/ CatWrite
    \/ CatRead

SpecCatalog == InitCatalog /\ [][NextCatalog]_vars

----------------------------------------------------------------------------
(* Claims about PickCatalog, under SpecCatalog *)

\* a and b differ by at most d
Within(a, b, d) == a - b <= d /\ b - a <= d

\* C14: reading back a list that was set and written gives every star of
\* the list, with its x, y and magnitude to within half a thousandth and its
\* magnitude error to within half a ten-thousandth.
C14_RoundTrip ==
    pickCatalog.stage = "read" =>
        \A i \in 1..Len(pickCatalog.serial) :
            /\ pickCatalog.serial[i] \in DOMAIN pickCatalog.read
            /\ LET star == pickCatalog.read[pickCatalog.serial[i]]
               IN /\ Within(star.x, pickCatalog.x[i], 5)
                  /\ Within(star.y, pickCatalog.y[i], 5)
                  /\ Within(star.mag, pickCatalog.mag[i], 5)
                  /\ Within(star.mag_err, pickCatalog.magErr[i], 0)

----------------------------------------------------------------------------
(* _make_output_path called again with the same arguments, daophot.py      *)
(* 347-369, over explicit paths, names, categories and existing files      *)

\* the calls with the same arguments that are followed
MaxCalls == 2

\* explicit paths: unset, a file name, a path with a directory, a path
\* that ends with a separator
OutPaths == {None, <<"p">>, <<"d", "/", "p">>, <<"d", "/">>}

\* names: unset, empty, ordinary, one with a separator in it
OutNames == {None, <<>>, <<"a">>, <<"a", "/", "b">>}

\* the working directory is a directory, whether written 'w' or 'w/'
isdir(p) == RStripSlash(p) = workDir

\* lines 363-367: os.remove raises OSError when the destination exists and
\* is a directory
make_output_path_raised(path, name, ext) ==
    IF isdir(join(workDir, make_output_path(path, name, ext))) THEN "OSError" ELSE ""

\* the destination of a call, relative to the Python process
fullpath(call) == join(workDir, make_output_path(call.path, call.name, call.ext))

\* a session exists; a file may be at the destination already
InitOutputPath ==
    /\ pathCache = InitCache
    /\ daophot = "spawned"
    /\ va = <<>>
    /\ named = [e \in Exts |-> EmptyDict]
    /\ ret = Returned("__init__", None)
    /\ result = -1
    /\ nOps = 0
    /\ MakeIdle
    /\ apCatalog = {} /\ pickerCall = NoPicker
    /\ parsing = NoParsing /\ pickCatalog = NoPickCatalog
    /\ factory = NoFactory
    /\ \E path \in OutPaths, name \in OutNames, ext \in Exts :
        /\ outputCall = [calls |-> 0, path |-> path, name |-> name, ext |-> ext,
                         returned |-> None, raised |-> "", found |-> FALSE]
        /\ \E existing \in SUBSET {fullpath(outputCall)} :
            files = InitFiles \cup (existing \ {p \in existing : isdir(p)})

\* what these steps leave alone
OutputOnly ==
    UNCHANGED <<pathCache, daophot, va, named, ret, result, nOps, makeVars,
                apCatalog, pickerCall, parsing, pickCatalog, factory>>

\* _make_output_path(path, name, ext)
OutMakeOutputPath ==
    /\ outputCall.calls < MaxCalls
    /\ LET raised == make_output_path_raised(outputCall.path, outputCall.name, outputCall.ext)
       IN /\ outputCall' = [outputCall EXCEPT
                !.calls = @ + 1,
                !.raised = raised,
                !.found = fullpath(outputCall) \in files,
                !.returned = IF raised # "" THEN None
                             ELSE make_output_path(outputCall.path, outputCall.name,
                                                   outputCall.ext)]
          /\ files' = IF raised # "" THEN files
                      ELSE removed_output(files, outputCall.path, outputCall.name,
                                          outputCall.ext)
    /\ OutputOnly

\* the process writes the output the returned path was sent for
OutWritten ==
    /\ outputCall.calls >= 1 /\ outputCall.calls < MaxCalls
    /\ outputCall.raised = ""
    /\ fullpath(outputCall) \notin files
    /\ files' = files \cup {fullpath(outputCall)}
    /\ UNCHANGED outputCall
    /\ OutputOnly

NextOutputPath ==
    \/ OutMakeOutputPath
    \/ OutWritten

SpecOutputPath == InitOutputPath /\ [][NextOutputPath]_vars

----------------------------------------------------------------------------
(* Claims about _make_output_path, under SpecOutputPath *)

\* _make_output_path has returned
OutReturned == outputCall.calls >= 1 /\ outputCall.raised = ""

\* the path has a directory component
HasDirectory(p) == \E i \in 1..Len(p) : p[i] = "/"

\* what is returned for an explicit path is that path's file name; what is
\* returned without one is the image's base name 'm', then '_' and the name
\* exactly when a name is given, then '.' and the category
ReturnedAsDescribed ==
    /\ outputCall.path # None => IsFinalComponent(outputCall.returned, outputCall.path)
    /\ (outputCall.path = None /\ outputCall.name = None)
         => outputCall.returned = <<"m", ".">> \o ExtStr(outputCall.ext)
    /\ (outputCall.path = None /\ outputCall.name # None)
         => outputCall.returned
              = <<"m", "_">> \o outputCall.name \o <<".">> \o ExtStr(outputCall.ext)

\* C17 as claimed: the returned path is as described and never contains a
\* directory component.
C17_NeverADirectory ==
    OutReturned => (ReturnedAsDescribed /\ ~HasDirectory(outputCall.returned))

\* C17 as amended: the returned path is as described; it contains a
\* directory component only when it is formed from a name that contains one.
C17_FileNameUnlessNameHasDirectory ==
    OutReturned =>
        /\ ReturnedAsDescribed
        /\ HasDirectory(outputCall.returned)
             <=> (outputCall.path = None /\ outputCall.name # None
                    /\ HasDirectory(outputCall.name))

\* C17's case: called without a path and with the name 'a' for a coordinate
\* file, it has returned 'm_a.coo'
C17_Witness ==
    /\ OutReturned
    /\ outputCall.path = None /\ outputCall.name = <<"a">> /\ outputCall.ext = "coo"
    /\ outputCall.returned = <<"m", "_", "a", ".", "c", "o", "o">>

\* C18: when _make_output_path returns, no file is at the returned path's
\* place in the working directory, whatever was there before; and a call
\* that follows a call that returned, with the same arguments, returns the
\* same path and does not raise.
C18_DestinationCleared ==
    /\ [][(outputCall'.calls = outputCall.calls + 1 /\ outputCall'.raised = "")
            => join(workDir, outputCall'.returned) \notin files']_vars
    /\ [][(OutReturned /\ outputCall'.calls = outputCall.calls + 1)
            => (outputCall'.raised = "" /\ outputCall'.returned = outputCall.returned)]_vars

\* C18's case: the second call found the file written after the first call
\* at the destination, removed it and returned
C18_Witness ==
    /\ outputCall.calls = 2 /\ outputCall.raised = "" /\ outputCall.found
    /\ join(workDir, outputCall.returned) \notin files

----------------------------------------------------------------------------
(* PSFFactory(workDir, apRadPath), psfpipe.py 20-29 *)

\* the name the aperture radius file has in the working directory
PhotoOpt == <<"p", "h", "o", "t", "o", ".", "o", "p", "t">>

\* the working directories a caller names
WorkDirs == {<<"w">>, <<"v">>}

\* the aperture radius files a caller supplies: the one of a working
\* directory itself, one of the same or of another name elsewhere, and one
\* in the current directory
ApRadPaths ==
    {join(d, PhotoOpt) : d \in WorkDirs}
        \cup {join(<<"s">>, PhotoOpt), <<"s", "/", "a", ".", "o", "p", "t">>, PhotoOpt}

\* what a file holds: no file, or one of three radius tables
Absent == ""
Contents == {"r3", "r5", "r8"}

\* a caller is about to build a factory: the supplied file exists, the
\* working directory may, and with it a 'photo.opt' of an earlier run
InitFactory ==
    /\ SessionInit /\ MakeIdle
    /\ apCatalog = {} /\ pickerCall = NoPicker
    /\ parsing = NoParsing /\ outputCall = NoOutputCall /\ pickCatalog = NoPickCatalog
    /\ \E wd \in WorkDirs, ap \in ApRadPaths, c \in Contents, there \in BOOLEAN,
          old \in {Absent} \cup Contents :
        /\ dirname(ap) = wd => there
        /\ ap = join(wd, PhotoOpt) => old = c
        /\ ~there => old = Absent
        /\ factory = [stage |-> "args", workDir |-> wd, apRadPath |-> ap,
                      dirs |-> {dirname(ap)} \cup (IF there THEN {wd} ELSE {}),
                      fs |-> [f \in ApRadPaths |->
                                  IF f = ap THEN c
                                  ELSE IF f = join(wd, PhotoOpt) THEN old ELSE Absent],
                      given |-> c, selfApRadPath |-> None, raised |-> ""]

\* __init__, lines 20-29, on the directories `dirs` and the files `fs`:
\* makedirs when the working directory is missing; then, when the supplied
\* path is not the installed one, os.remove(apRadPath) if the installed file
\* exists, and shutil.copy(apRadPath, self.apRadPath).  os.remove raises
\* OSError and shutil.copy IOError when apRadPath names no file.
PSFFactory_init(dirs, fs, wd, apRadPath) ==
    LET made == dirs \cup {wd}
        self == join(wd, PhotoOpt)
        exists == fs[self] # Absent
        removed == IF exists THEN [fs EXCEPT ![apRadPath] = Absent] ELSE fs
    IN IF apRadPath = self
       THEN [dirs |-> made, fs |-> fs, selfApRadPath |-> self, raised |-> ""]
       ELSE IF exists /\ fs[apRadPath] = Absent
       THEN [dirs |-> made, fs |-> fs, selfApRadPath |-> self, raised |-> "OSError"]
       ELSE IF removed[apRadPath] = Absent
       THEN [dirs |-> made, fs |-> removed, selfApRadPath |-> self, raised |-> "IOError"]
       ELSE [dirs |-> made, fs |-> [removed EXCEPT ![self] = removed[apRadPath]],
             selfApRadPath |-> self, raised |-> ""]

\* PSFFactory(workDir, apRadPath)
NewPSFFactory ==
    /\ factory.stage = "args"
    /\ LET f == PSFFactory_init(factory.dirs, factory.fs, factory.workDir,
                                factory.apRadPath)
       IN factory' = [factory EXCEPT !.stage = "built", !.dirs = f.dirs, !.fs = f.fs,
                                     !.selfApRadPath = f.selfApRadPath,
                                     !.raised = f.raised]
    /\ UNCHANGED <<driverVars, nOps, makeVars, apCatalog, pickerCall, parsing,
                   outputCall, pickCatalog>>

NextFactory == NewPSFFactory

SpecFactory == InitFactory /\ [][NextFactory]_vars

----------------------------------------------------------------------------
(* Claims about the construction of a PSFFactory, under SpecFactory *)

\* C38: building a PSFFactory installs the aperture radius file in the
\* working directory without deleting or changing the supplied file, whether
\* or not the working directory already holds a 'photo.opt': once built, the
\* constructor has raised nothing, the supplied file holds what it held, and
\* the working directory's 'photo.opt' holds the same.
C38_InstallKeepsSource ==
    factory.stage = "built" =>
        /\ factory.raised = ""
        /\ factory.workDir \in factory.dirs
        /\ factory.fs[factory.apRadPath] = factory.given
        /\ factory.fs[join(factory.workDir, PhotoOpt)] = factory.given

====
